---- MODULE Spec2Model ----
(***************************************************************************)
(* Hybrid retrieval of the catalog: HybridSearch (src/src/catalog/core.py) *)
(* over a BM25 index and a vector store adapter (SqliteVectorDB or         *)
(* ChromaVectorDB), fused by reciprocal rank fusion.                       *)
(*                                                                         *)
(* Seven specifications share the module, one per part of the program:     *)
(*   Spec       HybridSearch: construction, search, fuse_results, each     *)
(*              call from its start to its return                          *)
(*   SpecSearch HybridSearch.search statement by statement, on a vector    *)
(*              store and a lexical index that are kept between the calls  *)
(*   SpecStore  the rebuild of a vector store (core.py) and the queries    *)
(*              of other processes that interleave with it                 *)
(*   SpecRetry  retry_on_db_error (src/src/catalog/core/db.py)             *)
(*   SpecRag    QueryClassifier.classify_query and RAGSystem.query         *)
(*              (src/src/catalog/lib/rag.py)                               *)
(*   SpecCli    the hybrid-search command (src/src/catalog/main.py)        *)
(*   SpecDb     the pooled connections of the wrapped functions of         *)
(*              src/src/catalog/core/db.py                                 *)
(* Each leaves the variables of the other parts at their initial values;   *)
(* SpecCli and SpecSearch run on a vector store, which they share with     *)
(* SpecStore.                                                              *)
(*                                                                         *)
(* Representation.                                                         *)
(*  - A corpus position p (0-based, as in Python) is the identity          *)
(*    <<"int", p>>; the string primary key of the catalog document at      *)
(*    position p is <<"str", p>>; a row without an id is <<"none", 0>>.    *)
(*  - bm25_scores is a sequence; the score of position p is scores[p+1].   *)
(*  - alpha is the rational alpha / AlphaDen.  A fused score s stands for  *)
(*    the real number s / (AlphaDen * Scale), where Scale is a common      *)
(*    multiple of every rrf_k + rank + 1 that can occur, so that the       *)
(*    sums and comparisons of the code are computed exactly.               *)
(*  - The adapter returning None is vector_outcome = "none" with no rows:  *)
(*    fuse_results treats None and [] alike (core.py:300).                 *)
(*  - A Python str is the sequence of its characters; "" is <<>>.          *)
(***************************************************************************)
EXTENDS Integers, Sequences, FiniteSets, TLC

VARIABLES pc, vector_db,
          \* the documents list given to HybridSearch and the index self.bm25
          corpus, bm25,
          \* the call in progress; vector_results and bm25_scores are the
          \* objects passed to fuse_results
          op, vector_outcome, vector_results, bm25_scores, k, alpha, result,
          \* search: the query string, the calls made to vector_db.query, and
          \* what collection.count() / the documents table held at that call
          query, query_calls, collection_count,
          \* the dict fused_scores of fuse_results, and the statements of
          \* search that have run, in order
          fused_scores, search_steps

hsVars == <<pc, vector_db, corpus, bm25, op, vector_outcome, vector_results,
            bm25_scores, k, alpha, result, query, query_calls,
            collection_count, fused_scores, search_steps>>

\* len(documents)
corpus_size == Len(corpus)

\* the vector store under a rebuild: whether its documents table or
\* collection exists and the documents in it; and what a query of another
\* process saw of it, or that the query raised
VARIABLES st_pc, st_backend, st_exists, st_store, st_old, st_items, st_seen,
          st_seen_at, st_seen_raised

storeVars == <<st_pc, st_backend, st_exists, st_store, st_old, st_items,
               st_seen, st_seen_at, st_seen_raised>>

\* one call of a function wrapped by retry_on_db_error: the decorator's
\* arguments, the loop index, the outcomes of the invocations of the wrapped
\* function so far, the time.sleep calls so far, and how the call ended
VARIABLES rt_pc, max_retries, delay, attempt, invocations, sleeps,
          rt_value, rt_raised

retryVars == <<rt_pc, max_retries, delay, attempt, invocations, sleeps,
               rt_value, rt_raised>>

\* one call of QueryClassifier.classify_query or of RAGSystem.query: the
\* arguments, what the collaborators do during the call, the classification,
\* the step that failed with its message, and the value returned
VARIABLES rag_pc, rag_op, user_query, use_llm, rag_env, classified,
          rag_failed, rag_error, rag_result

ragVars == <<rag_pc, rag_op, user_query, use_llm, rag_env, classified,
             rag_failed, rag_error, rag_result>>

\* ---- the hybrid-search command (main.py)
VARIABLES cli_pc, cli_db, cli_catalog_exists, cli_catalog, cli_query, cli_limit, cli_alpha,
          cli_documents, cli_output, cli_corpus, cli_searched

cliVars == <<cli_pc, cli_db, cli_catalog_exists, cli_catalog, cli_query, cli_limit, cli_alpha,
             cli_documents, cli_output, cli_corpus, cli_searched>>

\* ---- the wrapped database functions and the connection pool (db.py):
\* the frames of the calls in progress (innermost last), the connections
\* checked out of the pool, whether get_db() has built the pool (the global
\* _db is set), and what the outermost call did: its connection and query
\* events, the sleeps of all wrappers, and how it ended
VARIABLES db_pc, db_func, db_stack, checked_out, pool_created, db_trace,
          db_sleeps, db_value, db_raised

dbVars == <<db_pc, db_func, db_stack, checked_out, pool_created, db_trace,
            db_sleeps, db_value, db_raised>>

vars == <<hsVars, storeVars, retryVars, ragVars, cliVars, dbVars>>

\* ---------------------------------------------------------------- bounds
MaxDocs == 2
MaxVec == 1
MaxK == 2
MaxDist == 1
MaxScore == 2
MaxRetries == 3
MaxDelay == 3
MaxWords == 2
AlphaDen == 2

\* ------------------------------------------------------ program constants
rrf_k == 60

\* ----------------------------------------------------------- identities
Pos(p) == <<"int", p>>
StrId(p) == <<"str", p>>
NoneId == <<"none", 0>>

Min(a, b) == IF a <= b THEN a ELSE b
Max(a, b) == IF a >= b THEN a ELSE b

RECURSIVE GCD(_, _)
GCD(a, b) == IF b = 0 THEN a ELSE GCD(b, a % b)

RECURSIVE LCMUpTo(_)
LCMUpTo(r) ==
    IF r < 0 THEN 1
    ELSE LET l == LCMUpTo(r - 1)
             d == rrf_k + r + 1
         IN  (l \div GCD(l, d)) * d

Scale == LCMUpTo(Max(MaxVec, MaxDocs) - 1)

\* 1 / (rrf_k + rank + 1), in units of 1 / Scale
Reciprocal(rank) == Scale \div (rrf_k + rank + 1)

\* ------------------------------------------------- Python built-ins used
\* sorted(items, key=..., reverse=...) over records with a key field:
\* stable, and with reverse=True equal keys keep their original order too.
SortedInsert_Mutant(acc, x, reverse) ==
    LET before == {i \in 1..Len(acc) :
                     IF reverse THEN acc[i].key > x.key
                                ELSE acc[i].key <= x.key}
        n == Cardinality(before)
    IN  SubSeq(acc, 1, n) \o <<x>> \o SubSeq(acc, n + 1, Len(acc))

SortedInsert(acc, x, reverse) ==
    LET before == {i \in 1..Len(acc) :
                     IF reverse THEN acc[i].key >= x.key
                                ELSE acc[i].key <= x.key}
        n == Cardinality(before)
    IN  SubSeq(acc, 1, n) \o <<x>> \o SubSeq(acc, n + 1, Len(acc))

RECURSIVE SortedFrom(_, _, _, _)
SortedFrom(items, i, acc, reverse) ==
    IF i > Len(items) THEN acc
    ELSE SortedFrom(items, i + 1, SortedInsert(acc, items[i], reverse), reverse)

Sorted(items, reverse) == SortedFrom(items, 1, <<>>, reverse)

\* seq[:n]
Slice(seq, n) ==
    IF n >= 0 THEN SubSeq(seq, 1, Min(n, Len(seq)))
    ELSE SubSeq(seq, 1, Max(Len(seq) + n, 0))

\* fused_scores is a dict: a sequence of entries in insertion order.
DictIndex(d, id) ==
    IF \E i \in 1..Len(d) : d[i].id = id
    THEN CHOOSE i \in 1..Len(d) : d[i].id = id
    ELSE 0

\* fused_scores[id] = fused_scores.get(id, 0) + rrf_score
DictAdd(d, id, rrf_score) ==
    LET i == DictIndex(d, id)
    IN  IF i = 0 THEN Append(d, [id |-> id, key |-> rrf_score])
        ELSE [d EXCEPT ![i].key = @ + rrf_score]

\* ------------------------------------------------ HybridSearch.fuse_results
SortedVector_Mutant(vr) ==
    [i \in 1..Len(vr) |-> [key |-> vr[i].distance, id |-> vr[i].id]]

\* sorted(vector_results, key=lambda x: x.get("distance", 0))
SortedVector(vr) ==
    Sorted([i \in 1..Len(vr) |-> [key |-> vr[i].distance, id |-> vr[i].id]],
           FALSE)

DictGet_Mutant(row) == [dict |-> [row EXCEPT !.id = NoneId], value |-> row.id]

\* result.get("id"): the value under the key (None without it); the dict
\* keeps its keys
DictGet(row) == [dict |-> row, value |-> row.id]

RECURSIVE VectorPass(_, _, _, _)
VectorPass(sv, i, a, d) ==
    IF i > Len(sv) THEN d
    ELSE VectorPass(sv, i + 1, a,
            IF DictGet(sv[i]).value # NoneId
            THEN DictAdd(d, sv[i].id, a * Reciprocal(i - 1))
            ELSE d)

\* sorted(range(len(bm25_scores)), key=lambda i: bm25_scores[i], reverse=True)
SortedBm25Indices(scores) ==
    Sorted([i \in 1..Len(scores) |-> [key |-> scores[i], idx |-> i - 1]], TRUE)

BM25Credited_Mutant(score) == score >= 0

\* if bm25_scores[doc_idx] > 0
BM25Credited(score) == score > 0

RECURSIVE Bm25Pass(_, _, _, _)
Bm25Pass(sb, i, a, d) ==
    IF i > Len(sb) THEN d
    ELSE Bm25Pass(sb, i + 1, a,
            IF BM25Credited(sb[i].key)
            THEN DictAdd(d, Pos(sb[i].idx), (AlphaDen - a) * Reciprocal(i - 1))
            ELSE d)

\* fused_scores = {}; if vector_results: ... the loop over sorted_vector
AfterVector(vr, a) ==
    IF Len(vr) > 0 THEN VectorPass(SortedVector(vr), 1, a, <<>>) ELSE <<>>

\* ... and the loop over sorted_bm25_indices
AfterBm25(scores, a, d) == Bm25Pass(SortedBm25Indices(scores), 1, a, d)

FusedScores(vr, scores, a) == AfterBm25(scores, a, AfterVector(vr, a))

TopK_Mutant(sorted_results, kk) == sorted_results

\* sorted_results[:k]
TopK(sorted_results, kk) == Slice(sorted_results, kk)

\* sorted_results = sorted(fused_scores.items(), key=lambda x: x[1],
\* reverse=True); return [doc_id for doc_id, score in sorted_results[:k]]
TopIds(d, kk) ==
    LET sorted_results == Sorted(d, TRUE)
        top == TopK(sorted_results, kk)
    IN  [i \in 1..Len(top) |-> top[i].id]

fuse_results(vr, scores, kk, a) == TopIds(FusedScores(vr, scores, a), kk)

\* --------------------------------------------------------- input domains
Distances == 0..MaxDist
ScoreValues == (-1)..MaxScore
Alphas == 0..AlphaDen
Ks == 0..MaxK

SeqsUpTo(S, n) == UNION {[1..m -> S] : m \in 0..n}

\* the ids a caller of fuse_results can put in a row, for a score vector of
\* length n: the positions 0..n-1, the out-of-range position n, a string
\* primary key, and a row without an id
Rows(n) == [id : {Pos(p) : p \in 0..n} \cup {StrId(0), NoneId}, distance : Distances]

\* BM25Okapi.get_scores: one score per corpus document
ScoreVectors(n) == [1..n -> ScoreValues]

\* ------------------------------------------------- vector store adapters
\* The rows a k-nearest-neighbour query can return when the store indexes
\* the first s documents of the catalog: min(limit, s) distinct documents,
\* nearest first.  The embedding model is opaque, so the distances are any
\* non-decreasing sequence.
KnnRows(kind, s, limit) ==
    LET m == Min(Max(limit, 0), s)
    IN  {rows \in [1..m -> [id : {<<kind, p>> : p \in 0..(s - 1)},
                            distance : Distances]] :
            /\ \A i, j \in 1..m : i < j => rows[i].id # rows[j].id
            /\ \A i \in 1..(m - 1) : rows[i].distance <= rows[i + 1].distance}

Raise == [kind |-> "raise", rows |-> <<>>]
ReturnNone == [kind |-> "none", rows |-> <<>>]
ReturnList(rows) == [kind |-> "list", rows |-> rows]

\* SqliteVectorDB.query: SELECT id, ..., distance FROM documents
\* WHERE embedding MATCH ? ORDER BY distance LIMIT {limit}; id is the TEXT
\* primary key of the document.  sqlite3 errors propagate.
SqliteQueryAt(s, limit) ==
    {Raise} \cup {ReturnList(rows) : rows \in KnnRows("str", s, limit)}

\* ChromaVectorDB.query: None on an empty collection, otherwise the ids
\* "doc_<idx>" parsed back to idx.  chromadb errors propagate (it rejects
\* n_results <= 0).
ChromaQueryAt(s, limit) ==
    {Raise}
      \cup (IF s > 0
            THEN (IF limit > 0
                  THEN {ReturnList(rows) : rows \in KnnRows("int", s, limit)}
                  ELSE {})
            ELSE {ReturnNone})

VectorDBs == {"sqlite", "chroma"}

\* vector_db.query(query, k=limit) when the store holds s documents
QueryAt(db, s, limit) ==
    IF db = "sqlite" THEN SqliteQueryAt(s, limit) ELSE ChromaQueryAt(s, limit)

\* ----------------------------------------------------------- query strings
\* The characters of a str are those of Latin-1 (U+0000 - U+00FF).  A
\* character that cannot be written in a string here is written as its
\* Python escape: "\\x0b" is the one character '\x0b'.
\* The characters c with c.isspace(), on which str.split() separates:
Whitespace ==
    {" ", "\t", "\n", "\r", "\f", "\\x0b", "\\x1c", "\\x1d", "\\x1e", "\\x1f",
     "\\x85", "\\xa0"}

\* str.split(): the maximal runs of non-whitespace characters
RECURSIVE SplitFrom(_, _, _, _)
SplitFrom(s, i, word, words) ==
    IF i > Len(s)
    THEN (IF Len(word) > 0 THEN Append(words, word) ELSE words)
    ELSE IF s[i] \in Whitespace
         THEN SplitFrom(s, i + 1, <<>>,
                        IF Len(word) > 0 THEN Append(words, word) ELSE words)
         ELSE SplitFrom(s, i + 1, Append(word, s[i]), words)

Split(s) == SplitFrom(s, 1, <<>>, <<>>)

EmptyString == <<>>
ForestFire == <<"f", "o", "r", "e", "s", "t", " ", "f", "i", "r", "e">>

\* the query strings given to search: '', 'forest fire' and '\t\n', which
\* has no word
SearchQueries == {EmptyString, ForestFire, <<"\t", "\n">>}

Range(seq) == {seq[i] : i \in 1..Len(seq)}

\* the text of the catalog's document at position p
DocText(p) == IF p % 2 = 0 THEN ForestFire ELSE <<"f", "i", "r", "e">>

\* the documents lists given to HybridSearch: the texts of the first n
\* documents of the catalog, and one document without a word
Corpora == {[i \in 1..n |-> DocText(i - 1)] : n \in 0..MaxDocs} \cup {<<EmptyString>>}

\* tokenized = [doc.split() for doc in documents]
Tokenized(documents) == [i \in 1..Len(documents) |-> Split(documents[i])]

\* BM25Okapi(tokenized) (rank_bm25): the number of documents, the length of
\* each and the words of each.  While it builds the index it computes
\* avgdl = num_doc / corpus_size, a ZeroDivisionError for an empty corpus,
\* and average_idf = idf_sum / len(idf), a ZeroDivisionError when no
\* document has a word.
BM25Okapi(tokenized) ==
    [corpus_size |-> Len(tokenized),
     doc_len |-> [i \in 1..Len(tokenized) |-> Len(tokenized[i])],
     doc_freqs |-> [i \in 1..Len(tokenized) |-> Range(tokenized[i])]]

BM25OkapiBuilds(tokenized) ==
    /\ Len(tokenized) > 0
    /\ \E i \in 1..Len(tokenized) : Len(tokenized[i]) > 0

\* no index: before __init__, and when BM25Okapi raised
NoIndex == [corpus_size |-> 0, doc_len |-> <<>>, doc_freqs |-> <<>>]

\* BM25Okapi.get_scores(tokens): one score per document; the scores start
\* at zero and each query token adds its term, which is zero for a document
\* that does not hold the token.  The value of a term (real arithmetic on
\* the idf and the lengths, negative on small corpora) is left open.
GetScores(tokens, index) ==
    {scores \in ScoreVectors(index.corpus_size) :
        \A i \in 1..index.corpus_size :
           (Range(tokens) \cap index.doc_freqs[i] = {}) => scores[i] = 0}

CandidateCount_Mutant(kk) == kk

\* k=k*2
CandidateCount(kk) == kk * 2

ReachesFuse_Mutant(p) == p \in {"queried", "scored"}

\* return self.fuse_results(vector_results, bm25_scores, k, alpha) is the
\* third statement of search: control reaches it when get_scores has
\* returned
ReachesFuse(p) == p = "scored"


\* ------------------------------------------------------------ str values
\* the characters c of Latin-1 with c.lower() != c, and c.lower() for each
UpperCase ==
    <<"A", "B", "C", "D", "E", "F", "G", "H", "I", "J", "K", "L", "M",
      "N", "O", "P", "Q", "R", "S", "T", "U", "V", "W", "X", "Y", "Z",
      "À", "Á", "Â", "Ã", "Ä", "Å", "Æ", "Ç", "È", "É", "Ê", "Ë", "Ì",
      "Í", "Î", "Ï", "Ð", "Ñ", "Ò", "Ó", "Ô", "Õ", "Ö", "Ø", "Ù", "Ú",
      "Û", "Ü", "Ý", "Þ">>
LowerCase ==
    <<"a", "b", "c", "d", "e", "f", "g", "h", "i", "j", "k", "l", "m",
      "n", "o", "p", "q", "r", "s", "t", "u", "v", "w", "x", "y", "z",
      "à", "á", "â", "ã", "ä", "å", "æ", "ç", "è", "é", "ê", "ë", "ì",
      "í", "î", "ï", "ð", "ñ", "ò", "ó", "ô", "õ", "ö", "ø", "ù", "ú",
      "û", "ü", "ý", "þ">>

LowerChar(c) ==
    IF \E i \in 1..Len(UpperCase) : UpperCase[i] = c
    THEN LowerCase[CHOOSE i \in 1..Len(UpperCase) : UpperCase[i] = c]
    ELSE c

\* str.lower()
Lower(s) == [i \in 1..Len(s) |-> LowerChar(s[i])]

\* sub in s
Contains(s, sub) ==
    \E i \in 0..(Len(s) - Len(sub)) : SubSeq(s, i + 1, i + Len(sub)) = sub

\* str.strip(chars)
RECURSIVE LStrip(_, _)
LStrip(s, cs) ==
    IF Len(s) > 0 /\ s[1] \in cs THEN LStrip(Tail(s), cs) ELSE s

RECURSIVE RStrip(_, _)
RStrip(s, cs) ==
    IF Len(s) > 0 /\ s[Len(s)] \in cs
    THEN RStrip(SubSeq(s, 1, Len(s) - 1), cs)
    ELSE s

Strip(s, cs) == RStrip(LStrip(s, cs), cs)

\* " ".join(words)
RECURSIVE Str(_)
Str(ws) ==
    IF Len(ws) = 0 THEN <<>>
    ELSE IF Len(ws) = 1 THEN ws[1]
    ELSE ws[1] \o <<" ">> \o Str(Tail(ws))

\* the words the indicator phrases and the queries are made of
Word ==
    [ most |-> <<"m", "o", "s", "t">>,
      frequent |-> <<"f", "r", "e", "q", "u", "e", "n", "t">>,
      common |-> <<"c", "o", "m", "m", "o", "n">>,
      top |-> <<"t", "o", "p">>,
      keyword |-> <<"k", "e", "y", "w", "o", "r", "d">>,
      frequency |-> <<"f", "r", "e", "q", "u", "e", "n", "c", "y">>,
      frequencies |->
        <<"f", "r", "e", "q", "u", "e", "n", "c", "i", "e", "s">>,
      popular |-> <<"p", "o", "p", "u", "l", "a", "r">>,
      duplicate |-> <<"d", "u", "p", "l", "i", "c", "a", "t", "e">>,
      title |-> <<"t", "i", "t", "l", "e">>,
      titles |-> <<"t", "i", "t", "l", "e", "s">>,
      same |-> <<"s", "a", "m", "e">>,
      repeated |-> <<"r", "e", "p", "e", "a", "t", "e", "d">>,
      identical |-> <<"i", "d", "e", "n", "t", "i", "c", "a", "l">>,
      from |-> <<"f", "r", "o", "m">>,
      in |-> <<"i", "n">>,
      source |-> <<"s", "o", "u", "r", "c", "e">>,
      dataset |-> <<"d", "a", "t", "a", "s", "e", "t">>,
      data |-> <<"d", "a", "t", "a">>,
      forest |-> <<"f", "o", "r", "e", "s", "t">>,
      fire |-> <<"f", "i", "r", "e">>,
      datasets |-> <<"d", "a", "t", "a", "s", "e", "t", "s">>,
      erosion |-> <<"e", "r", "o", "s", "i", "o", "n">>,
      related |-> <<"r", "e", "l", "a", "t", "e", "d">>,
      climate |-> <<"c", "l", "i", "m", "a", "t", "e">>,
      change |-> <<"c", "h", "a", "n", "g", "e">>,
      information |->
        <<"i", "n", "f", "o", "r", "m", "a", "t", "i", "o", "n">>,
      water |-> <<"w", "a", "t", "e", "r">>,
      quality |-> <<"q", "u", "a", "l", "i", "t", "y">>,
      studies |-> <<"s", "t", "u", "d", "i", "e", "s">>,
      show |-> <<"s", "h", "o", "w">>,
      me |-> <<"m", "e">>,
      USGS |-> <<"U", "S", "G", "S">>,
      ER |-> <<"É", "R">>,
      USGS_dot |-> <<"U", "S", "G", "S", ".">>,
      Source |-> <<"S", "o", "u", "r", "c", "e">>,
      what |-> <<"w", "h", "a", "t">>,
      are |-> <<"a", "r", "e">>,
      the |-> <<"t", "h", "e">>,
      keywords |-> <<"k", "e", "y", "w", "o", "r", "d", "s">> ]

\* ------------------------------------------- QueryClassifier.classify_query
\* the phrases of a keyword frequency query
frequency_indicators ==
    { Str(<<Word.most, Word.frequent, Word.keyword>>),
      Str(<<Word.most, Word.common, Word.keyword>>),
      Str(<<Word.top, Word.keyword>>),
      Str(<<Word.keyword, Word.frequency>>),
      Str(<<Word.keyword, Word.frequencies>>),
      Str(<<Word.popular, Word.keyword>>),
      Str(<<Word.common, Word.keyword>>),
      Str(<<Word.frequent, Word.keyword>>) }

\* the phrases of a duplicate title query
duplicate_indicators ==
    { Str(<<Word.duplicate, Word.title>>),
      Str(<<Word.duplicate, Word.titles>>),
      Str(<<Word.same, Word.title>>),
      Str(<<Word.repeated, Word.title>>),
      Str(<<Word.identical, Word.title>>),
      Str(<<Word.title, Word.duplicate>>) }

\* the words that announce a data source
source_indicators ==
    { Str(<<Word.from>>),
      Str(<<Word.in>>),
      Str(<<Word.source>>),
      Str(<<Word.dataset>>),
      Str(<<Word.data, Word.source>>) }

StripChars == {".", ",", "!", "?"}

NoParams == [has_data_source |-> FALSE, data_source |-> <<>>]

\* any(indicator in query_lower for indicator in indicators)
AnyIndicator(indicators, q) == \E ind \in indicators : Contains(q, ind)

\* the for loop over the words of the query: the word after the first word
\* that is a source indicator and has a successor
ExtractSource(q) ==
    LET ws == Split(q)
        hits == {i \in 1..Len(ws) : Lower(ws[i]) \in source_indicators /\ i < Len(ws)}
    IN  IF hits = {}
        THEN NoParams
        ELSE LET i == CHOOSE h \in hits : \A g \in hits : h <= g
             IN  [has_data_source |-> TRUE, data_source |-> Strip(ws[i + 1], StripChars)]

classify_query(q) ==
    LET query_lower == Lower(q)
    IN  IF AnyIndicator(frequency_indicators, query_lower)
        THEN [type |-> "keyword_frequency", params |-> NoParams]
        ELSE IF AnyIndicator(duplicate_indicators, query_lower)
        THEN [type |-> "duplicate_titles", params |-> NoParams]
        ELSE IF AnyIndicator(source_indicators, query_lower)
        THEN [type |-> "data_source_filter", params |-> ExtractSource(q)]
        ELSE [type |-> "vector_search", params |-> NoParams]

\* the queries of the tests
ForestFireDatasets == Str(<<Word.forest, Word.fire, Word.datasets>>)

VectorSearchExamples ==
    {ForestFireDatasets,
     Str(<<Word.erosion, Word.related, Word.data>>),
     Str(<<Word.climate, Word.change, Word.information>>),
     Str(<<Word.water, Word.quality, Word.studies>>)}

\* the free queries: up to MaxWords of these words
WordLists ==
    SeqsUpTo({Word.forest, Word.data, Word.information, Word.datasets, Word.from,
              Word.in, Word.USGS_dot, Word.Source, Word.duplicate, Word.title,
              Word.top, Word.keyword, Word.ER}, MaxWords) \ {<<>>}

RagQueries ==
    VectorSearchExamples
      \cup {Str(<<Word.show, Word.me, Word.datasets, Word.from, Word.USGS>>),
            Str(<<Word.what, Word.are, Word.the, Word.top, Word.keywords>>),
            \* 'data\tfrom\tUSGS' and 'top\nkeyword'
            Word.data \o <<"\t">> \o Word.from \o <<"\t">> \o Word.USGS,
            Word.top \o <<"\n">> \o Word.keyword}
      \cup {Str(ws) : ws \in WordLists}

\* ------------------------------------------------------- RAGSystem.query
\* a Python value that is a str or None
PyStr(chars) == <<"str", chars>>
PyNone == <<"none", <<>>>>

UserQueries == {PyStr(q) : q \in RagQueries} \cup {PyNone}

\* How requests.post and the reading of its response end in _call_llm, and
\* the text that goes into the answer: status 200 with the content, another
\* status ({response.status_code} - {response.text}), an exception of the
\* request, any other exception (status 200 and a JSON body without
\* 'choices').
LLMErrorMessage ==
    "200" :> ""
      @@ "500" :> "500 - Internal Server Error"
      @@ "requests.exceptions.RequestException"
           :> "HTTPConnectionPool: Max retries exceeded"
      @@ "KeyError" :> "'choices'"

\* what the collaborators do during one call: whether get_embedding raises,
\* whether the database raises, how the HTTP request to the LLM ends, and
\* how many rows the database finds
Environments ==
    [embed_fails : BOOLEAN, db_fails : BOOLEAN, llm : DOMAIN LLMErrorMessage,
     found : 0..MaxDocs]

NoEnvironment ==
    [embed_fails |-> FALSE, db_fails |-> FALSE, llm |-> "200", found |-> 0]

NotClassified == [type |-> "none", params |-> NoParams]

\* str(e) of the exceptions the steps of query raise
ErrorMessage ==
    [AttributeError |-> "'NoneType' object has no attribute 'lower'",
     RuntimeError |-> "Embedding model not loaded",
     OperationalError |-> "connection to server failed"]

Text(template, message) == [template |-> template, message |-> message]

NoResult ==
    [query |-> PyNone, query_type |-> "none", documents |-> 0,
     response |-> Text("", ""),
     metadata |-> [has_error |-> FALSE, error |-> "", data_source |-> PyNone]]

Returns(value) ==
    [kind |-> "return", value |-> value, step |-> "none", exc |-> "none",
     message |-> ""]

Raises(step, exc, message) ==
    [kind |-> "raise", value |-> NoResult, step |-> step, exc |-> exc,
     message |-> message]

\* LLMManager._call_llm(prompt): a status other than 200 and every exception
\* are turned there into the text of the answer
CallLLM(env) ==
    CASE env.llm = "200" -> Text("{content}", "")
      [] env.llm = "500"
           -> Text("Error querying LLM: {}", LLMErrorMessage[env.llm])
      [] env.llm = "requests.exceptions.RequestException"
           -> Text("Error connecting to LLM: {}", LLMErrorMessage[env.llm])
      [] OTHER -> Text("Unexpected error: {}", LLMErrorMessage[env.llm])

\* LLMManager.generate_response(query, documents, VECTOR_SEARCH)
GenerateResponse(env) ==
    IF env.found = 0
    THEN Text("No relevant documents found for your query.", "")
    ELSE CallLLM(env)

\* extracted_params['data_source'], the data_source argument being None
DataSource(params) ==
    IF params.has_data_source THEN PyStr(params.data_source) ELSE PyNone

\* RAGSystem._handle_vector_search_query
HandleVectorSearch(uq, params, llm, env) ==
    IF env.embed_fails
    THEN Raises("embedding", "RuntimeError", ErrorMessage.RuntimeError)
    ELSE IF env.db_fails
    THEN Raises("search", "psycopg2.OperationalError", ErrorMessage.OperationalError)
    ELSE Returns(
           [query |-> uq, query_type |-> "vector_search",
            documents |-> env.found,
            response |-> IF llm THEN GenerateResponse(env)
                         ELSE Text("Found {} relevant documents.", ""),
            metadata |-> [has_error |-> FALSE, error |-> "",
                          data_source |-> DataSource(params)]])

\* RAGSystem._handle_keyword_frequency_query
HandleKeywordFrequency(uq, params, llm, env) ==
    IF env.db_fails
    THEN Raises("search", "psycopg2.OperationalError", ErrorMessage.OperationalError)
    ELSE Returns(
           [query |-> uq, query_type |-> "keyword_frequency",
            documents |-> 0,
            response |-> IF llm /\ env.found > 0 THEN CallLLM(env)
                         ELSE Text("Found {} keywords.", ""),
            metadata |-> [has_error |-> FALSE, error |-> "",
                          data_source |-> DataSource(params)]])

\* RAGSystem._handle_duplicate_titles_query
HandleDuplicateTitles(uq, params) ==
    Returns(
      [query |-> uq, query_type |-> "duplicate_titles", documents |-> 0,
       response |-> Text("Duplicate titles functionality not yet implemented.", ""),
       metadata |-> [has_error |-> FALSE, error |-> "",
                     data_source |-> DataSource(params)]])

\* self.query_classifier.classify_query(user_query): None has no lower()
Classify(uq) ==
    IF uq[1] = "str"
    THEN Returns(classify_query(uq[2]))
    ELSE [kind |-> "raise", value |-> NotClassified, step |-> "classification",
          exc |-> "AttributeError", message |-> ErrorMessage.AttributeError]

\* the outcome of classification, query by query
Classification == [uq \in UserQueries |-> Classify(uq)]

\* the body of the try block of RAGSystem.query, c being the outcome of
\* its call of classify_query
TryBody(uq, c, llm, env) ==
    IF c.kind = "raise"
    THEN Raises(c.step, c.exc, c.message)
    ELSE IF c.value.type = "keyword_frequency"
    THEN HandleKeywordFrequency(uq, c.value.params, llm, env)
    ELSE IF c.value.type = "duplicate_titles"
    THEN HandleDuplicateTitles(uq, c.value.params)
    ELSE HandleVectorSearch(uq, c.value.params, llm, env)

ExceptException_Mutant(exc) == exc = "psycopg2.OperationalError"

\* except Exception as e
ExceptException(exc) == exc # "none"

\* the dict returned by the except clause
ErrorDict(uq, message) ==
    [query |-> uq, query_type |-> "error", documents |-> 0,
     response |-> Text("Error processing query: {}", message),
     metadata |-> [has_error |-> TRUE, error |-> message, data_source |-> PyNone]]

\* whether the request to the LLM was made and failed
LLMCallFailed(out, llm, env) ==
    /\ out.kind = "return"
    /\ env.llm # "200"
    /\ llm
    /\ env.found > 0
    /\ out.value.query_type \in {"vector_search", "keyword_frequency"}

RagIdle ==
    /\ rag_pc = "idle"
    /\ rag_op = "none"
    /\ user_query = PyNone
    /\ use_llm = FALSE
    /\ rag_env = NoEnvironment
    /\ classified = NotClassified
    /\ rag_failed = "none"
    /\ rag_error = ""
    /\ rag_result = NoResult

\* QueryClassifier.classify_query(query)
ClassifyQuery ==
    /\ rag_pc = "idle"
    /\ \E q \in RagQueries :
         /\ user_query' = PyStr(q)
         /\ classified' = classify_query(q)
    /\ rag_op' = "classify"
    /\ rag_pc' = "returned"
    /\ UNCHANGED <<use_llm, rag_env, rag_failed, rag_error, rag_result>>

\* RAGSystem.query(user_query, use_llm=llm)
RagQuery ==
    /\ rag_pc = "idle"
    /\ \E uq \in UserQueries :
         LET c == Classification[uq]
         IN  /\ user_query' = uq
             /\ classified' = c.value
             /\ \E llm \in BOOLEAN, env \in Environments :
                  LET out == TryBody(uq, c, llm, env)
                  IN  /\ use_llm' = llm
                      /\ rag_env' = env
                      /\ IF out.kind = "return"
                         THEN /\ rag_result' = out.value
                              /\ rag_pc' = "returned"
                              /\ rag_failed' = IF LLMCallFailed(out, llm, env)
                                                THEN "llm" ELSE "none"
                              /\ rag_error' = IF LLMCallFailed(out, llm, env)
                                               THEN LLMErrorMessage[env.llm] ELSE ""
                         ELSE /\ rag_failed' = out.step
                              /\ rag_error' = out.message
                              /\ IF ExceptException(out.exc)
                                 THEN /\ rag_result' = ErrorDict(uq, out.message)
                                      /\ rag_pc' = "returned"
                                 ELSE /\ rag_result' = NoResult
                                      /\ rag_pc' = "raised"
    /\ rag_op' = "query"

\* the caller has the value
RagDone ==
    /\ rag_pc \in {"returned", "raised"}
    /\ rag_pc' = "idle"
    /\ rag_op' = "none"
    /\ user_query' = PyNone
    /\ use_llm' = FALSE
    /\ rag_env' = NoEnvironment
    /\ classified' = NotClassified
    /\ rag_failed' = "none"
    /\ rag_error' = ""
    /\ rag_result' = NoResult

\* ------------------------------------------------------ index rebuilds
\* The store holds the sequence of the catalog documents it was loaded with,
\* a document being its primary key 1..MaxDocs.  A rebuild is
\* ChromaVectorDB.load_documents or SqliteVectorDB.bulk_insert_documents; the
\* statements of a rebuild that commit to the store are its steps, and a
\* query made by another process on the same store may come between any two.
Catalogs == SeqsUpTo(1..MaxDocs, MaxDocs)

HasDuplicate(items) ==
    \E i, j \in 1..Len(items) : i # j /\ items[i] = items[j]

\* documents[0:limit], limit None or 0 meaning all of them
ItemsToInsert(documents, limit) ==
    Slice(documents, IF limit = 0 THEN Len(documents) ELSE limit)

\* executemany inside "with self.conn": the rows are committed together, or
\* a duplicate primary key fails the statement and the transaction is rolled
\* back
Executemany(items) == IF HasDuplicate(items) THEN <<>> ELSE items

\* SqliteVectorDB.__init__ opens the database file and creates no table
StoreIdle ==
    /\ st_pc = "idle"
    /\ st_backend = "sqlite"
    /\ st_exists = FALSE
    /\ st_store = <<>>
    /\ st_old = <<>>
    /\ st_items = <<>>
    /\ st_seen = <<>>
    /\ st_seen_at = "none"
    /\ st_seen_raised = FALSE

\* a new store of either kind: ChromaVectorDB.__init__ creates the
\* collection (get_or_create=True)
StoreInit ==
    /\ st_pc = "idle"
    /\ st_backend \in VectorDBs
    /\ st_exists = (st_backend = "chroma")
    /\ st_store = <<>>
    /\ st_old = <<>>
    /\ st_items = <<>>
    /\ st_seen = <<>>
    /\ st_seen_at = "none"
    /\ st_seen_raised = FALSE

\* bulk_insert_documents(limit) up to the call of create_docs_db: the
\* catalog is read and the rows are prepared; an empty catalog returns at
\* once
SqliteBuildItems ==
    /\ st_pc = "idle"
    /\ st_backend = "sqlite"
    /\ \E documents \in Catalogs, limit \in 0..MaxDocs :
         /\ st_items' = ItemsToInsert(documents, limit)
         /\ st_pc' = IF Len(documents) = 0 THEN "idle" ELSE "loaded"
    /\ st_old' = st_store
    /\ st_seen' = <<>>
    /\ st_seen_at' = "none"
    /\ st_seen_raised' = FALSE
    /\ UNCHANGED <<st_backend, st_exists, st_store>>

\* create_docs_db(), called by bulk_insert_documents or on its own: DROP
\* TABLE IF EXISTS documents.  sqlite3 opens no transaction for a DROP or
\* CREATE statement, each is committed as it runs: the table is gone for
\* every connection until the CREATE that follows.
SqliteDropTable ==
    /\ st_backend = "sqlite"
    /\ \/ /\ st_pc = "loaded"
          /\ st_pc' = "dropped"
          /\ UNCHANGED <<st_old, st_items, st_seen, st_seen_at, st_seen_raised>>
       \/ /\ st_pc = "idle"
          /\ st_pc' = "create_docs_db"
          /\ st_old' = st_store
          /\ st_items' = <<>>
          /\ st_seen' = <<>>
          /\ st_seen_at' = "none"
          /\ st_seen_raised' = FALSE
    /\ st_exists' = FALSE
    /\ st_store' = <<>>
    /\ UNCHANGED st_backend

\* create_docs_db(): CREATE VIRTUAL TABLE documents USING vec0(...)
SqliteCreateTable ==
    /\ st_backend = "sqlite"
    /\ st_pc \in {"dropped", "create_docs_db"}
    /\ st_exists' = TRUE
    /\ st_store' = <<>>
    /\ st_pc' = IF st_pc = "dropped" THEN "created" ELSE "idle"
    /\ UNCHANGED <<st_backend, st_old, st_items, st_seen, st_seen_at,
                   st_seen_raised>>

\* cursor.executemany(sql, items), an IntegrityError being logged
SqliteInsert ==
    /\ st_pc = "created"
    /\ st_backend = "sqlite"
    /\ st_store' = Executemany(st_items)
    /\ st_pc' = "idle"
    /\ UNCHANGED <<st_backend, st_exists, st_old, st_items, st_seen, st_seen_at,
                   st_seen_raised>>

\* load_documents() up to delete_collection: the catalog is read
ChromaLoadMetadata ==
    /\ st_pc = "idle"
    /\ st_backend = "chroma"
    /\ \E documents \in Catalogs : st_items' = documents
    /\ st_pc' = "loaded"
    /\ st_old' = st_store
    /\ st_seen' = <<>>
    /\ st_seen_at' = "none"
    /\ st_seen_raised' = FALSE
    /\ UNCHANGED <<st_backend, st_exists, st_store>>

\* client.delete_collection(name)
ChromaDeleteCollection ==
    /\ st_pc = "loaded"
    /\ st_backend = "chroma"
    /\ st_exists' = FALSE
    /\ st_store' = <<>>
    /\ st_pc' = "deleted"
    /\ UNCHANGED <<st_backend, st_old, st_items, st_seen, st_seen_at,
                   st_seen_raised>>

\* client.create_collection(name, get_or_create=True)
ChromaCreateCollection ==
    /\ st_pc = "deleted"
    /\ st_backend = "chroma"
    /\ st_exists' = TRUE
    /\ st_store' = <<>>
    /\ st_pc' = "created"
    /\ UNCHANGED <<st_backend, st_old, st_items, st_seen, st_seen_at,
                   st_seen_raised>>

\* collection.add(documents, metadatas, ids), the ids being doc_0, doc_1, ...
ChromaAdd ==
    /\ st_pc = "created"
    /\ st_backend = "chroma"
    /\ st_store' = st_items
    /\ st_pc' = "idle"
    /\ UNCHANGED <<st_backend, st_exists, st_old, st_items, st_seen, st_seen_at,
                   st_seen_raised>>

\* A query of another process during the rebuild: it reads what the store
\* holds at that moment.  Without the documents table (never created, or
\* dropped) the SELECT raises sqlite3.OperationalError (no such table:
\* documents).  Once the rebuild has deleted the collection, a
\* ChromaVectorDB built before the delete holds the handle of the deleted
\* collection and raises from collection.count(); one built now finds the
\* collection, its __init__ creating it (get_or_create=True) if it is
\* missing, and sees it empty.
InterleavedQuery ==
    /\ st_pc # "idle"
    /\ st_seen_at = "none"
    /\ st_seen_at' = st_pc
    /\ st_seen_raised' \in IF st_backend = "sqlite" THEN {~st_exists}
                          ELSE IF st_pc \in {"deleted", "created"} THEN BOOLEAN
                          ELSE {FALSE}
    /\ st_seen' = IF st_seen_raised' THEN <<>> ELSE st_store
    /\ st_exists' = (st_exists \/ (st_backend = "chroma" /\ ~st_seen_raised'))
    /\ UNCHANGED <<st_pc, st_backend, st_store, st_old, st_items>>

\* ------------------------------------------------ hybrid-search (main.py)
NoDocumentsFound == "No documents found. Run build-docs-catalog first."

\* load_documents gives back the list of the n documents of the catalog
\* file, or None
NoDocuments == [kind |-> "none", len |-> 0]

\* SqliteVectorDB.load_documents: the documents of the catalog file; open()
\* raises FileNotFoundError when there is no file
SqliteLoadDocuments(exists, n) ==
    IF exists THEN {[kind |-> "list", len |-> n]}
              ELSE {[kind |-> "raise", len |-> 0]}

\* ChromaVectorDB.load_documents, the collection being rebuilt: it ends
\* without a return statement; collection.add of empty lists is refused (it
\* raises) by the chromadb releases that validate their arguments
ChromaLoadDocuments(n) ==
    IF n = 0 THEN {NoDocuments, [kind |-> "raise", len |-> 0]}
             ELSE {NoDocuments}

CliIdle ==
    /\ cli_pc = "idle"
    /\ cli_db = "sqlite"
    /\ cli_catalog_exists = FALSE
    /\ cli_catalog = 0
    /\ cli_query = EmptyString
    /\ cli_limit = 0
    /\ cli_alpha = 0
    /\ cli_documents = NoDocuments
    /\ cli_output = <<>>
    /\ cli_corpus = 0
    /\ cli_searched = FALSE

\* hybrid-search --query q --db db --limit k --alpha a, run where
\* data/catalog.json holds n documents or does not exist
CliInvoke ==
    /\ cli_pc = "idle"
    /\ cli_output = <<>>
    /\ \E db \in VectorDBs, exists \in BOOLEAN, n \in 0..MaxDocs,
          q \in SearchQueries, kk \in Ks, a \in Alphas :
         /\ exists \/ n = 0
         /\ cli_db' = db
         /\ cli_catalog_exists' = exists
         /\ cli_catalog' = n
         /\ cli_query' = q
         /\ cli_limit' = kk
         /\ cli_alpha' = a
    /\ cli_pc' = "start"
    /\ UNCHANGED <<cli_documents, cli_output, cli_corpus, cli_searched>>

\* documents = vector_db.load_documents(); if not documents: ... return.
\* With --db sqlite the call reads the catalog file.  With --db chroma it
\* starts here: load_document_metadata reads the catalog, a missing file
\* being reported and read as no documents, and the number loaded is
\* printed; the collection is then rebuilt by ChromaDeleteCollection,
\* ChromaCreateCollection and ChromaAdd.
CliLoadDocuments ==
    /\ cli_pc = "start"
    /\ IF cli_db = "sqlite"
       THEN /\ \E documents \in SqliteLoadDocuments(cli_catalog_exists, cli_catalog) :
                 /\ cli_documents' = documents
                 /\ IF documents.kind = "raise"
                    THEN /\ cli_pc' = "raised"
                         /\ UNCHANGED cli_output
                    ELSE IF documents.len = 0
                         THEN /\ cli_pc' = "done"
                              /\ cli_output' = Append(cli_output, NoDocumentsFound)
                         ELSE /\ cli_pc' = "loaded"
                              /\ UNCHANGED cli_output
            /\ UNCHANGED storeVars
       ELSE /\ st_pc = "idle"
            /\ cli_pc' = "loading"
            /\ cli_output' =
                 cli_output
                   \o (IF cli_catalog_exists THEN <<>>
                       ELSE <<"Source file {self.src_catalog_file} does not exist.">>)
                   \o <<"Loaded {len(self.documents)} documents from {self.src_catalog_file}">>
            /\ st_pc' = "loaded"
            /\ st_old' = st_store
            /\ st_items' = [i \in 1..cli_catalog |-> i]
            /\ st_seen' = <<>>
            /\ st_seen_at' = "none"
            /\ st_seen_raised' = FALSE
            /\ UNCHANGED <<st_backend, st_exists, st_store, cli_documents>>
    /\ UNCHANGED <<cli_db, cli_catalog_exists, cli_catalog, cli_query, cli_limit,
                   cli_alpha, cli_corpus, cli_searched>>

\* --db chroma: load_documents has rebuilt the collection and ends, by an
\* exception of collection.add or with None; if not documents: ... return
CliChromaLoaded ==
    /\ cli_pc = "loading"
    /\ st_pc = "idle"
    /\ \E documents \in ChromaLoadDocuments(cli_catalog) :
         /\ cli_documents' = documents
         /\ IF documents.kind = "raise"
            THEN /\ cli_pc' = "raised"
                 /\ UNCHANGED cli_output
            ELSE /\ cli_pc' = "done"
                 /\ cli_output' = Append(cli_output, NoDocumentsFound)
    /\ UNCHANGED <<cli_db, cli_catalog_exists, cli_catalog, cli_query, cli_limit,
                   cli_alpha, cli_corpus, cli_searched>>

\* The command from doc_texts on: the three lines it prints, hs =
\* HybridSearch(vector_db, doc_texts), results = hs.search(query, k=limit,
\* alpha=alpha) on a database file whose documents table holds s documents
\* or is missing (the exception leaves the command), "No results found."
\* for no results, otherwise bot = OllamaBot(); resp = bot.chat(query,
\* context), which gives the answer printed in a panel or raises
\* (OLLAMA_API_KEY unset, the service unreachable).  Only --db sqlite comes
\* here.
CliSearch ==
    /\ cli_pc = "loaded"
    /\ cli_corpus' = cli_documents.len
    /\ cli_searched' = TRUE
    /\ \E s \in 0..cli_catalog :
         \E out \in QueryAt(cli_db, s, CandidateCount(cli_limit)),
            scores \in GetScores(Split(cli_query),
                                  BM25Okapi(Tokenized([i \in 1..cli_documents.len
                                                         |-> DocText(i - 1)]))) :
            LET printed == cli_output
                             \o <<"Searching {len(documents)} documents...",
                                  "Query: {query}",
                                  "Database: {db}, Alpha: {alpha}, Limit: {limit}">>
                results == fuse_results(out.rows, scores, cli_limit, cli_alpha)
            IN  IF out.kind = "raise"
                THEN /\ cli_output' = printed
                     /\ cli_pc' = "raised"
                ELSE IF Len(results) = 0
                THEN /\ cli_output' = Append(printed, "No results found.")
                     /\ cli_pc' = "done"
                ELSE \E bot \in {"content", "raise"} :
                       IF bot = "raise"
                       THEN /\ cli_output' = printed
                            /\ cli_pc' = "raised"
                       ELSE /\ cli_output' = Append(printed, "Panel(resp)")
                            /\ cli_pc' = "done"
    /\ UNCHANGED <<cli_db, cli_catalog_exists, cli_catalog, cli_query, cli_limit,
                   cli_alpha, cli_documents>>

\* the command has ended; the next run starts from a fresh process
CliExit ==
    /\ cli_pc \in {"done", "raised"}
    /\ cli_pc' = "idle"
    /\ cli_db' = "sqlite"
    /\ cli_catalog_exists' = FALSE
    /\ cli_catalog' = 0
    /\ cli_query' = EmptyString
    /\ cli_limit' = 0
    /\ cli_alpha' = 0
    /\ cli_documents' = NoDocuments
    /\ cli_output' = <<>>
    /\ cli_corpus' = 0
    /\ cli_searched' = FALSE

\* ----------------------------------------------------- retry_on_db_error
OperationalError == "psycopg2.OperationalError"

\* what else the wrapped function may raise
OtherErrors == {"psycopg2.ProgrammingError", "ValueError"}

\* the outcomes of one invocation of the wrapped function; count_documents
\* returns the number of documents
FuncOutcomes ==
    {[kind |-> "return", value |-> v, exc |-> "none"] : v \in 0..MaxDocs}
      \cup {[kind |-> "raise", value |-> 0, exc |-> e] :
                e \in {OperationalError} \cup OtherErrors}

Retryable_Mutant(exc) == TRUE

\* except psycopg2.OperationalError
Retryable(exc) == exc = OperationalError

IsLastAttempt_Mutant(a, n) == a = n

\* if attempt == max_retries - 1
IsLastAttempt(a, n) == a = n - 1

Backoff_Mutant(d, a) == d

\* time.sleep(delay * (attempt + 1))
Backoff(d, a) == d * (a + 1)

RetryIdle ==
    /\ rt_pc = "idle"
    /\ max_retries = 0
    /\ delay = 0
    /\ attempt = 0
    /\ invocations = <<>>
    /\ sleeps = <<>>
    /\ rt_value = 0
    /\ rt_raised = "none"

\* wrapper(*args, **kwargs) is called: the for loop starts
RetryCall ==
    /\ rt_pc = "idle"
    /\ \E n \in 0..MaxRetries, d \in 1..MaxDelay :
         /\ max_retries' = n
         /\ delay' = d
    /\ rt_pc' = "loop"
    /\ attempt' = 0
    /\ UNCHANGED <<invocations, sleeps, rt_value, rt_raised>>

\* one iteration of "for attempt in range(max_retries)"
RetryAttempt ==
    /\ rt_pc = "loop"
    /\ attempt < max_retries
    /\ \E out \in FuncOutcomes :
         /\ invocations' = Append(invocations, out)
         /\ IF out.kind = "return"
            THEN /\ rt_pc' = "returned"
                 /\ rt_value' = out.value
                 /\ UNCHANGED <<attempt, sleeps, rt_raised>>
            ELSE IF Retryable(out.exc) /\ ~IsLastAttempt(attempt, max_retries)
                 THEN /\ sleeps' = Append(sleeps, Backoff(delay, attempt))
                      /\ attempt' = attempt + 1
                      /\ UNCHANGED <<rt_pc, rt_value, rt_raised>>
                 ELSE /\ rt_pc' = "raised"
                      /\ rt_raised' = out.exc
                      /\ UNCHANGED <<attempt, sleeps, rt_value>>
    /\ UNCHANGED <<max_retries, delay>>

\* the loop is exhausted: "return func(*args, **kwargs)" after it
RetryAfterLoop ==
    /\ rt_pc = "loop"
    /\ attempt >= max_retries
    /\ \E out \in FuncOutcomes :
         /\ invocations' = Append(invocations, out)
         /\ IF out.kind = "return"
            THEN /\ rt_pc' = "returned"
                 /\ rt_value' = out.value
                 /\ UNCHANGED rt_raised
            ELSE /\ rt_pc' = "raised"
                 /\ rt_raised' = out.exc
                 /\ UNCHANGED rt_value
    /\ UNCHANGED <<max_retries, delay, attempt, sleeps>>

\* the caller has the value or the exception
RetryDone ==
    /\ rt_pc \in {"returned", "raised"}
    /\ rt_pc' = "idle"
    /\ max_retries' = 0
    /\ delay' = 0
    /\ attempt' = 0
    /\ invocations' = <<>>
    /\ sleeps' = <<>>
    /\ rt_value' = 0
    /\ rt_raised' = "none"

\* ------------------------------------- the wrapped functions of core/db.py
\* @retry_on_db_error(max_retries=3), with the default delay=1
WrappedMaxRetries == 3
WrappedDelay == 1

\* the wrapped functions: what the try statement around the query does with
\* an exception ("finally": nothing but the finally clause; "return_default":
\* except Exception returning [] or None; "rollback_raise": except Exception
\* rolling back and re-raising), and the wrapped function the body calls
\* while it holds its connection, and whether the function returns its
\* empty value ([] or None) before get_db() when its argument is empty
\* ("if not query_embedding: return []", "if not records: return")
Wrapped ==
    [count_documents |->
        [handler |-> "finally", calls |-> "none", guard |-> FALSE],
     bulk_upsert_to_vector_db |->
        [handler |-> "finally", calls |-> "none", guard |-> TRUE],
     search_docs |->
        [handler |-> "return_default", calls |-> "none", guard |-> TRUE],
     get_all_distinct_keywords |->
        [handler |-> "return_default", calls |-> "none", guard |-> FALSE],
     save_eainfo |->
        [handler |-> "rollback_raise", calls |-> "none", guard |-> FALSE],
     get_eainfo_by_id |->
        [handler |-> "return_default", calls |-> "none", guard |-> FALSE],
     get_eainfo_by_source_file |->
        [handler |-> "return_default", calls |-> "get_eainfo_by_id",
         guard |-> FALSE],
     search_entity_by_name |->
        [handler |-> "finally", calls |-> "get_entity_attributes_extended",
         guard |-> FALSE],
     get_entity_attributes_extended |->
        [handler |-> "finally", calls |-> "none", guard |-> FALSE]]

\* get_db() and db.get_connection().  While the global _db is None, get_db
\* reads the configuration and builds the pool: DatabaseConfig.validate
\* raises ValueError for a missing POSTGRES_* variable, the pool's first
\* connection (pool_min = 1) cannot reach the server, or the pool is built
\* and lends that connection.  Once _db is set, the pool lends a connection,
\* cannot open a new one, or is exhausted.
ConnectOutcomes(created) ==
    IF created
    THEN {"none", OperationalError, "psycopg2.pool.PoolError"}
    ELSE {"none", OperationalError, "ValueError"}

\* the statements inside the try: they succeed, or the query raises, or
\* (get_eainfo_by_source_file, a row being found) the body calls
\* get_eainfo_by_id
ExecuteOutcomes(func) ==
    {"none", OperationalError, "psycopg2.ProgrammingError"}
      \cup (IF Wrapped[func].calls # "none" THEN {"call"} ELSE {})

\* conn.rollback() in the except clause of save_eainfo succeeds, or raises
\* on a connection that is closed (InterfaceError) or whose server is gone
\* (OperationalError)
RollbackOutcomes == {"none", "psycopg2.InterfaceError", OperationalError}

DbReturn(v) == [kind |-> "return", value |-> v, exc |-> "none"]
DbRaise(e) == [kind |-> "raise", value |-> "none", exc |-> e]

ExceptClause_Mutant(handler, outcome, rb) ==
    IF outcome.kind = "return" THEN outcome
    ELSE IF handler = "rollback_raise" /\ rb # "none" THEN DbRaise(rb)
    ELSE outcome

\* the except clause of the try statement around the query
ExceptClause(handler, outcome, rb) ==
    IF outcome.kind = "return" THEN outcome
    ELSE IF handler = "return_default" THEN DbReturn("default")
    ELSE IF handler = "rollback_raise" /\ rb # "none" THEN DbRaise(rb)
    ELSE outcome

Finally_Mutant(out, outcome) ==
    IF outcome.kind = "raise" THEN out ELSE out - 1

\* finally: db.return_connection(conn)
Finally(out, outcome) == out - 1

\* The try statement of the innermost frame ends with outcome, and with it
\* the invocation of the function by its wrapper (InvocationEnds): the
\* wrapper sleeps and invokes again, or the call ends and its value or
\* exception goes to the caller, which is the frame below ("return
\* get_eainfo_by_id(row[0])" inside its own try) or the program.
RECURSIVE BodyEnds(_, _, _)
RECURSIVE InvocationEnds(_, _, _)
BodyEnds(st, outcome, rb) ==
    LET f == st.stack[Len(st.stack)]
    IN  InvocationEnds([st EXCEPT !.out = Finally(@, outcome)],
                       ExceptClause(Wrapped[f.func].handler, outcome, rb), rb)

InvocationEnds(st, outcome, rb) ==
    LET n == Len(st.stack)
        f == st.stack[n]
    IN  IF /\ outcome.kind = "raise"
           /\ Retryable(outcome.exc)
           /\ ~IsLastAttempt(f.attempt, WrappedMaxRetries)
        THEN [st EXCEPT !.stack[n] = [f EXCEPT !.attempt = @ + 1,
                                               !.stage = "connect"],
                        !.sleeps = Append(@, Backoff(WrappedDelay, f.attempt))]
        ELSE IF n = 1
             THEN [st EXCEPT !.stack = <<>>,
                             !.pc = IF outcome.kind = "return"
                                    THEN "returned" ELSE "raised",
                             !.value = outcome.value,
                             !.raised = outcome.exc]
             ELSE BodyEnds([st EXCEPT !.stack = SubSeq(@, 1, n - 1)],
                           outcome, rb)

DbState == [stack |-> db_stack, out |-> checked_out, sleeps |-> db_sleeps,
            pc |-> db_pc, value |-> db_value, raised |-> db_raised]

DbIdle ==
    /\ db_pc = "idle"
    /\ db_func = "none"
    /\ db_stack = <<>>
    /\ checked_out = 0
    /\ pool_created = FALSE
    /\ db_trace = <<>>
    /\ db_sleeps = <<>>
    /\ db_value = "none"
    /\ db_raised = "none"

\* the program calls a wrapped function; search_docs returns [] at once for
\* an empty embedding, bulk_upsert_to_vector_db None for no records
DbCall ==
    /\ db_pc = "idle"
    /\ db_func = "none"
    /\ \E func \in DOMAIN Wrapped, has_argument \in BOOLEAN :
         /\ db_func' = func
         /\ IF Wrapped[func].guard /\ ~has_argument
            THEN /\ db_pc' = "returned"
                 /\ db_value' = "default"
                 /\ UNCHANGED db_stack
            ELSE /\ db_pc' = "running"
                 /\ db_stack' = <<[func |-> func, attempt |-> 0,
                                   stage |-> "connect"]>>
                 /\ UNCHANGED db_value
    /\ UNCHANGED <<checked_out, pool_created, db_trace, db_sleeps, db_raised>>

\* db = get_db(); conn = db.get_connection(), before the try statement
DbGetConnection ==
    /\ db_pc = "running"
    /\ db_stack[Len(db_stack)].stage = "connect"
    /\ \E exc \in ConnectOutcomes(pool_created) :
         LET st == IF exc = "none"
                   THEN [DbState EXCEPT !.stack[Len(db_stack)].stage = "body",
                                        !.out = @ + 1]
                   ELSE InvocationEnds(DbState, DbRaise(exc), "none")
         IN  /\ db_trace' = Append(db_trace, [depth |-> Len(db_stack),
                                               step |-> "connect",
                                               exc |-> exc,
                                               rollback |-> "none"])
             /\ pool_created' = (pool_created \/ exc = "none")
             /\ db_stack' = st.stack
             /\ checked_out' = st.out
             /\ db_sleeps' = st.sleeps
             /\ db_pc' = st.pc
             /\ db_value' = st.value
             /\ db_raised' = st.raised
    /\ UNCHANGED db_func

\* the try statement: the query and what follows it, up to the finally
\* clause, or up to the call of another wrapped function
DbExecute ==
    /\ db_pc = "running"
    /\ db_stack[Len(db_stack)].stage = "body"
    /\ \E exc \in ExecuteOutcomes(db_stack[Len(db_stack)].func),
          rb \in RollbackOutcomes :
         LET n == Len(db_stack)
             \* whether the except clause calls conn.rollback()
             rolls == /\ Wrapped[db_stack[n].func].handler = "rollback_raise"
                      /\ exc \notin {"none", "call"}
             st == IF exc = "call"
                   THEN [DbState EXCEPT
                           !.stack = Append([@ EXCEPT ![n].stage = "waiting"],
                                            [func |-> Wrapped[db_stack[n].func].calls,
                                             attempt |-> 0,
                                             stage |-> "connect"])]
                   ELSE BodyEnds(DbState,
                                 IF exc = "none" THEN DbReturn("result")
                                                 ELSE DbRaise(exc),
                                 rb)
         IN  /\ (rolls \/ rb = "none")
             /\ db_trace' = Append(db_trace,
                                   [depth |-> n, step |-> "execute",
                                    exc |-> IF exc = "call" THEN "none" ELSE exc,
                                    rollback |-> rb])
             /\ db_stack' = st.stack
             /\ checked_out' = st.out
             /\ db_sleeps' = st.sleeps
             /\ db_pc' = st.pc
             /\ db_value' = st.value
             /\ db_raised' = st.raised
    /\ UNCHANGED <<db_func, pool_created>>

\* the program has the value or the exception
DbDone ==
    /\ db_pc \in {"returned", "raised"}
    /\ db_pc' = "idle"
    /\ db_func' = "none"
    /\ db_stack' = <<>>
    /\ db_trace' = <<>>
    /\ db_sleeps' = <<>>
    /\ db_value' = "none"
    /\ db_raised' = "none"
    /\ UNCHANGED <<checked_out, pool_created>>

\* ---------------------------------------------------------------- actions
HsIdle ==
    /\ pc = "new"
    /\ vector_db = "unset"
    /\ corpus = <<>>
    /\ bm25 = NoIndex
    /\ op = "none"
    /\ vector_outcome = "unset"
    /\ vector_results = <<>>
    /\ bm25_scores = <<>>
    /\ k = 0
    /\ alpha = 0
    /\ result = <<>>
    /\ query = EmptyString
    /\ query_calls = <<>>
    /\ collection_count = 0
    /\ fused_scores = <<>>
    /\ search_steps = <<>>

Init == HsIdle /\ StoreIdle /\ RetryIdle /\ RagIdle /\ CliIdle /\ DbIdle

\* HybridSearch.__init__(vector_db, documents)
Construct(db, documents) ==
    /\ pc = "new"
    /\ vector_db' = db
    /\ corpus' = documents
    /\ IF BM25OkapiBuilds(Tokenized(documents))
       THEN /\ bm25' = BM25Okapi(Tokenized(documents))
            /\ pc' = "ready"
       ELSE /\ bm25' = NoIndex
            /\ pc' = "init_raised"
    /\ UNCHANGED <<op, vector_outcome, vector_results, bm25_scores, k, alpha, result,
                   query, query_calls, collection_count, fused_scores, search_steps>>

\* HybridSearch.search(query, k, alpha) from call to return, made while the
\* store holds s documents of the catalog
Search ==
    /\ pc = "ready"
    /\ \E q \in SearchQueries, kk \in Ks, a \in Alphas, s \in 0..corpus_size :
         \E out \in QueryAt(vector_db, s, CandidateCount(kk)) :
            /\ op' = "search"
            /\ query' = q
            /\ k' = kk
            /\ alpha' = a
            /\ collection_count' = s
            /\ query_calls' = <<[qstn |-> q, k |-> CandidateCount(kk)]>>
            /\ vector_outcome' = out.kind
            /\ vector_results' = out.rows
            /\ IF out.kind = "raise"
               THEN /\ bm25_scores' = <<>>
                    /\ result' = <<>>
                    /\ fused_scores' = <<>>
                    /\ pc' = "raised"
               ELSE /\ bm25_scores' \in GetScores(Split(q), bm25)
                    /\ result' = fuse_results(out.rows, bm25_scores', kk, a)
                    /\ fused_scores' = FusedScores(out.rows, bm25_scores', a)
                    /\ pc' = "returned"
    /\ UNCHANGED <<vector_db, corpus, bm25, search_steps>>

\* HybridSearch.fuse_results(vector_results, bm25_scores, k, alpha) called
\* directly, from call to return, with one score per corpus document
FuseResults ==
    /\ pc = "ready"
    /\ \E kk \in Ks, a \in Alphas :
         \E vr \in SeqsUpTo(Rows(corpus_size), MaxVec),
            scores \in ScoreVectors(corpus_size) :
            /\ op' = "fuse"
            /\ k' = kk
            /\ alpha' = a
            /\ vector_outcome' = "list"
            /\ vector_results' = vr
            /\ bm25_scores' = scores
            /\ result' = fuse_results(vr, scores, kk, a)
            /\ fused_scores' = FusedScores(vr, scores, a)
            /\ pc' = "returned"
    /\ UNCHANGED <<vector_db, corpus, bm25, query, query_calls, collection_count,
                   search_steps>>

\* the call is over; the object takes the next call
Return ==
    /\ pc \in {"returned", "raised"}
    /\ pc' = "ready"
    /\ op' = "none"
    /\ vector_outcome' = "unset"
    /\ vector_results' = <<>>
    /\ bm25_scores' = <<>>
    /\ k' = 0
    /\ alpha' = 0
    /\ result' = <<>>
    /\ query' = EmptyString
    /\ query_calls' = <<>>
    /\ collection_count' = 0
    /\ fused_scores' = <<>>
    /\ search_steps' = <<>>
    /\ UNCHANGED <<vector_db, corpus, bm25>>

Next ==
    \/ UNCHANGED <<storeVars, retryVars, ragVars, cliVars, dbVars>> /\ \E db \in VectorDBs, documents \in Corpora : Construct(db, documents)
    \/ UNCHANGED <<storeVars, retryVars, ragVars, cliVars, dbVars>> /\ Search
    \/ UNCHANGED <<storeVars, retryVars, ragVars, cliVars, dbVars>> /\ FuseResults
    \/ UNCHANGED <<storeVars, retryVars, ragVars, cliVars, dbVars>> /\ Return

Spec == Init /\ [][Next]_vars

\* ---- search statement by statement, on a store and an index that are kept
\* vector_results = self.vector_db.query(query, k=k*2): the adapter reads
\* the store (the rows of the documents table, or that there is no table;
\* the documents of the collection) and an exception of it leaves search
SearchQuery ==
    /\ pc = "ready"
    /\ \E q \in SearchQueries, kk \in Ks, a \in Alphas :
         \E out \in IF st_exists
                     THEN QueryAt(vector_db, Len(st_store), CandidateCount(kk))
                     ELSE {Raise} :
            /\ op' = "search"
            /\ query' = q
            /\ k' = kk
            /\ alpha' = a
            /\ collection_count' = Len(st_store)
            /\ query_calls' = <<[qstn |-> q, k |-> CandidateCount(kk)]>>
            /\ vector_outcome' = out.kind
            /\ vector_results' = out.rows
            /\ pc' = IF out.kind = "raise" THEN "raised" ELSE "queried"
    /\ search_steps' = <<"vector_db.query">>
    /\ UNCHANGED <<vector_db, corpus, bm25, bm25_scores, result, fused_scores>>
    /\ UNCHANGED <<st_backend, st_exists, st_store>>

\* bm25_scores = self.bm25.get_scores(query.split()): a new array, computed
\* from the index
SearchGetScores ==
    /\ pc = "queried"
    /\ bm25_scores' \in GetScores(Split(query), bm25)
    /\ search_steps' = Append(search_steps, "bm25.get_scores")
    /\ pc' = "scored"
    /\ UNCHANGED <<vector_db, corpus, bm25, op, vector_outcome, vector_results, k,
                   alpha, result, query, query_calls, collection_count,
                   fused_scores>>
    /\ UNCHANGED <<st_backend, st_exists, st_store>>

\* return self.fuse_results(vector_results, bm25_scores, k, alpha): the
\* call, which starts with fused_scores = {}
SearchFuse ==
    /\ ReachesFuse(pc)
    /\ search_steps' = Append(search_steps, "fuse_results")
    /\ fused_scores' = <<>>
    /\ pc' = "fusing"
    /\ UNCHANGED <<vector_db, corpus, bm25, op, vector_outcome, vector_results,
                   bm25_scores, k, alpha, result, query, query_calls,
                   collection_count>>
    /\ UNCHANGED <<st_backend, st_exists, st_store>>

\* if vector_results: sorted_vector = sorted(vector_results, ...), a new
\* list of the same row dicts, and the loop over it, which reads each row
\* with result.get("id")
FuseVector ==
    /\ pc = "fusing"
    /\ fused_scores' = AfterVector(vector_results, alpha)
    /\ vector_results' = [i \in 1..Len(vector_results)
                             |-> DictGet(vector_results[i]).dict]
    /\ pc' = "fused_vector"
    /\ UNCHANGED <<vector_db, corpus, bm25, op, vector_outcome, bm25_scores, k,
                   alpha, result, query, query_calls, collection_count,
                   search_steps>>
    /\ UNCHANGED <<st_backend, st_exists, st_store>>

\* sorted_bm25_indices = sorted(range(len(bm25_scores)), ...), a new list
\* of indices, and the loop over it, which reads bm25_scores[doc_idx]
FuseBm25 ==
    /\ pc = "fused_vector"
    /\ fused_scores' = AfterBm25(bm25_scores, alpha, fused_scores)
    /\ pc' = "fused_bm25"
    /\ UNCHANGED <<vector_db, corpus, bm25, op, vector_outcome, vector_results,
                   bm25_scores, k, alpha, result, query, query_calls,
                   collection_count, search_steps>>
    /\ UNCHANGED <<st_backend, st_exists, st_store>>

\* sorted_results = sorted(fused_scores.items(), ...); return [doc_id for
\* doc_id, score in sorted_results[:k]]
FuseReturn ==
    /\ pc = "fused_bm25"
    /\ result' = TopIds(fused_scores, k)
    /\ pc' = "returned"
    /\ UNCHANGED <<vector_db, corpus, bm25, op, vector_outcome, vector_results,
                   bm25_scores, k, alpha, query, query_calls, collection_count,
                   fused_scores, search_steps>>
    /\ UNCHANGED <<st_backend, st_exists, st_store>>

\* the store the adapter was opened on: a database file without the
\* documents table, or a table or collection that holds the first s
\* documents of the catalog
InitSearch ==
    /\ HsIdle /\ RetryIdle /\ RagIdle /\ CliIdle /\ DbIdle
    /\ st_pc = "idle"
    /\ st_backend \in VectorDBs
    /\ st_exists \in IF st_backend = "sqlite" THEN BOOLEAN ELSE {TRUE}
    /\ st_store \in {[i \in 1..s |-> i] : s \in IF st_exists THEN 0..MaxDocs ELSE {0}}
    /\ st_old = <<>>
    /\ st_items = <<>>
    /\ st_seen = <<>>
    /\ st_seen_at = "none"
    /\ st_seen_raised = FALSE

NextSearch ==
    \/ UNCHANGED <<storeVars, retryVars, ragVars, cliVars, dbVars>> /\ \E documents \in Corpora : Len(st_store) <= Len(documents) /\ Construct(st_backend, documents)
    \/ UNCHANGED <<st_pc, st_old, st_items, st_seen, st_seen_at, st_seen_raised, retryVars, ragVars, cliVars, dbVars>> /\ SearchQuery
    \/ UNCHANGED <<st_pc, st_old, st_items, st_seen, st_seen_at, st_seen_raised, retryVars, ragVars, cliVars, dbVars>> /\ SearchGetScores
    \/ UNCHANGED <<st_pc, st_old, st_items, st_seen, st_seen_at, st_seen_raised, retryVars, ragVars, cliVars, dbVars>> /\ SearchFuse
    \/ UNCHANGED <<st_pc, st_old, st_items, st_seen, st_seen_at, st_seen_raised, retryVars, ragVars, cliVars, dbVars>> /\ FuseVector
    \/ UNCHANGED <<st_pc, st_old, st_items, st_seen, st_seen_at, st_seen_raised, retryVars, ragVars, cliVars, dbVars>> /\ FuseBm25
    \/ UNCHANGED <<st_pc, st_old, st_items, st_seen, st_seen_at, st_seen_raised, retryVars, ragVars, cliVars, dbVars>> /\ FuseReturn
    \/ UNCHANGED <<storeVars, retryVars, ragVars, cliVars, dbVars>> /\ Return

SpecSearch == InitSearch /\ [][NextSearch]_vars

\* the rebuilds of a vector store and the queries that interleave with them
InitStore == HsIdle /\ StoreInit /\ RetryIdle /\ RagIdle /\ CliIdle /\ DbIdle

NextStore ==
    \/ UNCHANGED <<hsVars, retryVars, ragVars, cliVars, dbVars>> /\ SqliteBuildItems
    \/ UNCHANGED <<hsVars, retryVars, ragVars, cliVars, dbVars>> /\ SqliteDropTable
    \/ UNCHANGED <<hsVars, retryVars, ragVars, cliVars, dbVars>> /\ SqliteCreateTable
    \/ UNCHANGED <<hsVars, retryVars, ragVars, cliVars, dbVars>> /\ SqliteInsert
    \/ UNCHANGED <<hsVars, retryVars, ragVars, cliVars, dbVars>> /\ ChromaLoadMetadata
    \/ UNCHANGED <<hsVars, retryVars, ragVars, cliVars, dbVars>> /\ ChromaDeleteCollection
    \/ UNCHANGED <<hsVars, retryVars, ragVars, cliVars, dbVars>> /\ ChromaCreateCollection
    \/ UNCHANGED <<hsVars, retryVars, ragVars, cliVars, dbVars>> /\ ChromaAdd
    \/ UNCHANGED <<hsVars, retryVars, ragVars, cliVars, dbVars>> /\ InterleavedQuery

SpecStore == InitStore /\ [][NextStore]_vars

\* the calls of a function wrapped by retry_on_db_error
NextRetry ==
    \/ UNCHANGED <<hsVars, storeVars, ragVars, cliVars, dbVars>> /\ RetryCall
    \/ UNCHANGED <<hsVars, storeVars, ragVars, cliVars, dbVars>> /\ RetryAttempt
    \/ UNCHANGED <<hsVars, storeVars, ragVars, cliVars, dbVars>> /\ RetryAfterLoop
    \/ UNCHANGED <<hsVars, storeVars, ragVars, cliVars, dbVars>> /\ RetryDone

SpecRetry == Init /\ [][NextRetry]_vars

\* the calls of the query classifier and of the RAG system
NextRag ==
    \/ UNCHANGED <<hsVars, storeVars, retryVars, cliVars, dbVars>> /\ ClassifyQuery
    \/ UNCHANGED <<hsVars, storeVars, retryVars, cliVars, dbVars>> /\ RagQuery
    \/ UNCHANGED <<hsVars, storeVars, retryVars, cliVars, dbVars>> /\ RagDone

SpecRag == Init /\ [][NextRag]_vars

\* the runs of the hybrid-search command; the store is the chroma
\* collection, empty at first, which keeps what each run loads into it and
\* which another process may query while a run rebuilds it
InitCli == HsIdle /\ StoreInit /\ st_backend = "chroma" /\ RetryIdle /\ RagIdle /\ CliIdle /\ DbIdle

NextCli ==
    \/ UNCHANGED <<hsVars, storeVars, retryVars, ragVars, dbVars>> /\ CliInvoke
    \/ UNCHANGED <<hsVars, retryVars, ragVars, dbVars>> /\ CliLoadDocuments
    \/ UNCHANGED <<hsVars, retryVars, ragVars, cliVars, dbVars>> /\ ChromaDeleteCollection
    \/ UNCHANGED <<hsVars, retryVars, ragVars, cliVars, dbVars>> /\ ChromaCreateCollection
    \/ UNCHANGED <<hsVars, retryVars, ragVars, cliVars, dbVars>> /\ ChromaAdd
    \/ UNCHANGED <<hsVars, retryVars, ragVars, cliVars, dbVars>> /\ InterleavedQuery
    \/ UNCHANGED <<hsVars, storeVars, retryVars, ragVars, dbVars>> /\ CliChromaLoaded
    \/ UNCHANGED <<hsVars, storeVars, retryVars, ragVars, dbVars>> /\ CliSearch
    \/ UNCHANGED <<hsVars, storeVars, retryVars, ragVars, dbVars>> /\ CliExit

SpecCli == InitCli /\ [][NextCli]_vars

\* the calls of the wrapped database functions
NextDb ==
    \/ UNCHANGED <<hsVars, storeVars, retryVars, ragVars, cliVars>> /\ DbCall
    \/ UNCHANGED <<hsVars, storeVars, retryVars, ragVars, cliVars>> /\ DbGetConnection
    \/ UNCHANGED <<hsVars, storeVars, retryVars, ragVars, cliVars>> /\ DbExecute
    \/ UNCHANGED <<hsVars, storeVars, retryVars, ragVars, cliVars>> /\ DbDone

SpecDb == Init /\ [][NextDb]_vars

\* ------------------------------------------------------- claim vocabulary
Returned == pc = "returned"

\* the ids carried by the rows of the vector results
VectorIds == {vector_results[i].id : i \in 1..Len(vector_results)} \ {NoneId}

\* the rows are what an adapter returns: each has an id, no id twice
WellFormedRows ==
    /\ \A i \in 1..Len(vector_results) : vector_results[i].id # NoneId
    /\ \A i, j \in 1..Len(vector_results) :
          i # j => vector_results[i].id # vector_results[j].id

DistinctDistances ==
    \A i, j \in 1..Len(vector_results) :
       i # j => vector_results[i].distance # vector_results[j].distance

Score(p) == bm25_scores[p + 1]
Positions == 0..(Len(bm25_scores) - 1)

\* the ids of the rows, nearest first
VectorRanking ==
    LET sv == SortedVector(vector_results)
    IN  [i \in 1..Len(sv) |-> sv[i].id]

\* the positions that satisfy Keep, best BM25 score first
LexicalRanking(Keep(_)) ==
    LET sb == SortedBm25Indices(bm25_scores)
        kept == SelectSeq(sb, LAMBDA e : Keep(e.key))
    IN  [i \in 1..Len(kept) |-> Pos(kept[i].idx)]

NonZero(score) == score # 0
Positive(score) == score > 0

\* the catalog document an identity stands for
DocOf(id) == id[2]

Aligned(id) == id[1] = "int" /\ id[2] \in Positions

\* -------------------------------------------------------------------- C1
\* C1: whatever the vector results, the BM25 scores, alpha in [0,1] and
\* k >= 0, fuse_results, and so search, returns at most k identities.
C1_KLimit == Returned => Len(result) <= k

\* a search that found more identities than k and returned exactly k
C1_Witness ==
    /\ Returned /\ op = "search" /\ k > 0
    /\ Len(FusedScores(vector_results, bm25_scores, alpha)) > k
    /\ Len(result) = k

\* -------------------------------------------------------------------- C2
\* C2: a corpus position whose BM25 score is exactly 0 is in the returned
\* ranking only if it is also the id of a vector result.
C2_NoZeroScoreCredit ==
    Returned =>
      \A p \in Positions :
         (Score(p) = 0 /\ Pos(p) \in Range(result)) => Pos(p) \in VectorIds

\* room is left in the ranking, one zero-score position is in it through the
\* vector results and another zero-score position is absent
C2_Witness ==
    /\ Returned /\ Len(result) < k
    /\ \E p, q \in Positions :
          /\ Score(p) = 0 /\ Pos(p) \in Range(result)
          /\ Score(q) = 0 /\ Pos(q) \notin Range(result)

\* -------------------------------------------------------------------- C3
\* C3: with alpha = 1 and pairwise distinct distances, fuse_results returns
\* exactly the first k vector result ids, nearest first, whatever the BM25
\* scores.  (Stated for at least one row, each row with an id of its own.)
C3_AlphaOneIsVectorOnly ==
    (/\ Returned /\ alpha = AlphaDen
     /\ Len(vector_results) > 0 /\ DistinctDistances /\ WellFormedRows)
      => result = Slice(VectorRanking, k)

\* -------------------------------------------------------------------- C4
\* C4: with alpha = 0 and pairwise distinct nonzero BM25 scores,
\* fuse_results returns exactly the first k scoring positions, best score
\* first, whatever the vector results.  (Stated for positive scores, where
\* the reading of "nonzero" is not in question.)
C4_AlphaZeroIsLexicalOnly ==
    (/\ Returned /\ alpha = 0
     /\ \A p \in Positions : Score(p) > 0
     /\ \A p, q \in Positions : p # q => Score(p) # Score(q))
      => result = Slice(LexicalRanking(Positive), k)

\* -------------------------------------------------------------------- C5
\* C5: when the adapter returns an empty list or None, search returns the
\* positions with a nonzero BM25 score, best first, cut to k, for any alpha.
C5_EmptyVectorIsLexicalOnly ==
    (Returned /\ op = "search" /\ Len(vector_results) = 0)
      => result = Slice(LexicalRanking(NonZero), k)

\* -------------------------------------------------------------------- C6
\* C6: when the adapter's query raises, search does not raise; it returns
\* the lexical-only ranking.
C6_SearchSurvivesAdapterError ==
    (op = "search" /\ vector_outcome = "raise") => Returned

\* -------------------------------------------------------------------- C7
\* C7: a HybridSearch over an empty corpus is constructed without an
\* exception, and its search returns the vector-only ranking.
C7_EmptyCorpusConstructs ==
    /\ pc # "init_raised"
    /\ (Returned /\ op = "search" /\ corpus_size = 0)
         => result = Slice(VectorRanking, k)

\* -------------------------------------------------------------------- C8
\* C8: for each backend the ids of the rows returned by query are in the
\* identity space of the corpus positions, so a document found by both
\* rankers is one entry of the result of search, never two identities.
C8_OneIdentitySpace ==
    (Returned /\ op = "search") =>
      \A i, j \in 1..Len(result) :
         i # j => DocOf(result[i]) # DocOf(result[j])

\* -------------------------------------------------------------------- C9
\* C9: a vector result whose id is not a corpus position (an integer outside
\* 0..N-1 or a non-integer) is dropped: it is never in the ranking.
C9_UnalignedIdDropped ==
    Returned => \A i \in 1..Len(result) : Aligned(result[i])

\* ------------------------------------------------------------------- C10
\* C10: for 0 < alpha < 1 and k at least the number of distinct identities,
\* the identities returned are exactly the vector result ids together with
\* the positions whose BM25 score is nonzero.
C10_UnionOfBothRankers ==
    LET all == VectorIds \cup {Pos(p) : p \in {q \in Positions : Score(q) # 0}}
    IN  (Returned /\ 0 < alpha /\ alpha < AlphaDen /\ k >= Cardinality(all))
          => Range(result) = all


\* C11: every call search(query, k, alpha) makes exactly one call of the
\* vector adapter's query, and that call carries the query string as it was
\* given and the candidate count 2 * k.
C11_OneAdapterCall ==
    (op = "search") => query_calls = <<[qstn |-> query, k |-> 2 * k]>>

C11_Witness ==
    /\ Returned
    /\ op = "search"
    /\ k = MaxK
    /\ query = ForestFire
    /\ Len(query_calls) = 1
    /\ Len(vector_results) = MaxDocs

\* C13: the vector adapter's query on an empty collection answers with an
\* empty list of rows: ChromaVectorDB.query, asked while collection.count()
\* is 0 and the backend not failing, returns [] and not None.
C13_EmptyCollectionGivesList ==
    (/\ op = "search"
     /\ vector_db = "chroma"
     /\ collection_count = 0
     /\ vector_outcome # "raise")
      => (vector_outcome = "list" /\ vector_results = <<>>)

\* C14: search with the empty query string does not raise: it returns, every
\* corpus position has BM25 score 0, none of them is credited, and the result
\* is the first k identities of the adapter's rows in order of distance.
C14_EmptyQueryIsVectorOnly ==
    (/\ op = "search"
     /\ query = EmptyString
     /\ pc \in {"returned", "raised"})
      => /\ Returned
         /\ Len(bm25_scores) = corpus_size
         /\ \A p \in Positions : Score(p) = 0
         /\ result = Slice(VectorRanking, k)

\* C15: no step of a call of search, fuse_results included, changes the
\* object (its vector adapter, its corpus, its lexical index) or the contents
\* of the vector store, and from the call of fuse_results to its return the
\* vector_results and bm25_scores passed to it stay what was passed in; so
\* they are unchanged after any sequence of calls.
C15_ReadOnly ==
    [][(pc # "new")
         => /\ vector_db' = vector_db
            /\ corpus' = corpus
            /\ bm25' = bm25
            /\ st_exists' = st_exists
            /\ st_store' = st_store
            /\ (pc \in {"fusing", "fused_vector", "fused_bm25"}
                  => /\ vector_results' = vector_results
                     /\ bm25_scores' = bm25_scores)]_vars

C15_Witness ==
    /\ Returned
    /\ op = "search"
    /\ Len(st_store) = MaxDocs
    /\ corpus_size = MaxDocs
    /\ Len(vector_results) > 0
    /\ \E p, q \in Positions : p < q /\ Score(p) < Score(q)
    /\ Len(result) > 0

\* the index the rebuild under way is loading
NewIndex == st_items

\* C12: a query that comes during a rebuild (load_documents or
\* bulk_insert_documents) is answered, and sees the whole index as it was
\* before the rebuild or the whole index the rebuild loads, never an empty
\* or half-loaded store.
C12_RebuildIsAtomic ==
    (st_seen_at \notin {"none", "create_docs_db"})
      => /\ ~st_seen_raised
         /\ (st_seen = st_old \/ st_seen = NewIndex)

Invoked == Len(invocations)

\* C18: a call of a function wrapped with max_retries = n >= 1 invokes it at
\* most n times; an invocation that returns is the last one and its value is
\* the value of the call; and when n invocations have all raised
\* OperationalError, the call raises OperationalError.
C18_BoundedRetries ==
    (max_retries >= 1) =>
       /\ Invoked <= max_retries
       /\ \A i \in 1..Invoked :
             invocations[i].kind = "return"
               => /\ i = Invoked
                  /\ rt_pc = "returned"
                  /\ rt_value = invocations[i].value
       /\ (/\ Invoked = max_retries
           /\ \A i \in 1..Invoked : invocations[i].exc = OperationalError)
            => (rt_pc = "raised" /\ rt_raised = OperationalError)

C18_Witness ==
    /\ rt_pc = "returned"
    /\ max_retries = MaxRetries
    /\ Invoked = MaxRetries
    /\ invocations[1].exc = OperationalError
    /\ rt_value = MaxDocs

\* C19: an exception other than OperationalError raised by the wrapped
\* function ends the call at once: it is the last invocation, it is what the
\* call raises, and no sleep follows it; raised by the first invocation, it
\* leaves the call with one invocation and no sleep at all.
C19_OtherErrorsPropagate ==
    \A i \in 1..Invoked :
       invocations[i].exc \in OtherErrors
         => /\ i = Invoked
            /\ rt_pc = "raised"
            /\ rt_raised = invocations[i].exc
            /\ Len(sleeps) = i - 1
            /\ (i = 1 => sleeps = <<>>)

C19_Witness ==
    /\ rt_pc = "raised"
    /\ max_retries = MaxRetries
    /\ Invoked = 1
    /\ invocations[1].exc \in OtherErrors
    /\ sleeps = <<>>

\* the dict the except clause of RAGSystem.query builds for the failure
IsErrorDict ==
    /\ rag_result.query = user_query
    /\ rag_result.query_type = "error"
    /\ rag_result.documents = 0
    /\ rag_result.response.message = rag_error
    /\ rag_result.metadata.has_error
    /\ rag_result.metadata.error = rag_error

\* C17 as stated: RAGSystem.query returns, and whenever a step of it fails
\* (classification, embedding, the database search or the call of the LLM)
\* the value is the error dict: the query echoed, query_type "error", no
\* documents, the message in the response and in metadata.error.
C17_AnyFailureGivesErrorDict ==
    (rag_op = "query") =>
       /\ rag_pc = "returned"
       /\ (rag_failed # "none" => IsErrorDict)

\* C17 amended: RAGSystem.query returns; a failure of classification, of the
\* embedding or of the database search gives the error dict; a failure of the
\* call of the LLM is caught inside LLMManager and gives the ordinary dict of
\* the query type, its documents kept, the message in the response and no
\* metadata.error.
C17_Amended ==
    (rag_op = "query") =>
       /\ rag_pc = "returned"
       /\ (rag_failed \in {"classification", "embedding", "search"} => IsErrorDict)
       /\ (rag_failed = "llm"
             => /\ rag_result.query = user_query
                /\ rag_result.query_type \in {"vector_search", "keyword_frequency"}
                /\ rag_result.query_type = "vector_search"
                     => rag_result.documents = rag_env.found
                /\ rag_result.response.message = rag_error
                /\ ~rag_result.metadata.has_error)

C17_Witness ==
    /\ rag_op = "query"
    /\ rag_pc = "returned"
    /\ rag_failed = "embedding"
    /\ user_query = PyStr(ForestFireDatasets)
    /\ use_llm
    /\ IsErrorDict

\* a query whose words announce no data source
NamesNoSource(q) ==
    /\ \A w \in Range(Split(q)) : Lower(w) \notin source_indicators
    /\ ~Contains(Lower(q), Str(<<Word.data, Word.source>>))

\* a general topical query
Topical(q) ==
    /\ ~AnyIndicator(frequency_indicators, Lower(q))
    /\ ~AnyIndicator(duplicate_indicators, Lower(q))
    /\ NamesNoSource(q)

\* C20: classify_query returns the type VECTOR_SEARCH for a query that asks
\* for no keyword frequencies and no duplicate titles and names no data
\* source, and for the four queries of the test.
C20_TopicalIsVectorSearch ==
    (/\ rag_op = "classify"
     /\ (user_query[2] \in VectorSearchExamples \/ Topical(user_query[2])))
      => classified.type = "vector_search"

\* ------------------------------------------------------------- C21 - C28
\* the identities that hold a fused score, and the score of one of them
FusedIds == {fused_scores[i].id : i \in 1..Len(fused_scores)}
FusedScoreOf(id) == fused_scores[DictIndex(fused_scores, id)].key

InRanking(ranking, id) == \E i \in 1..Len(ranking) : ranking[i] = id
\* the 0-based rank of an identity in a ranking that holds it
RankIn(ranking, id) == (CHOOSE i \in 1..Len(ranking) : ranking[i] = id) - 1

\* alpha/(rrf_k + rv + 1) for the rank rv among the vector results, plus
\* (1 - alpha)/(rrf_k + rl + 1) for the rank rl among the positions whose
\* score is not 0 (both in units of 1/(AlphaDen * Scale))
StatedScore(id) ==
    (IF InRanking(VectorRanking, id)
     THEN alpha * Reciprocal(RankIn(VectorRanking, id)) ELSE 0)
    + (IF InRanking(LexicalRanking(NonZero), id)
       THEN (AlphaDen - alpha) * Reciprocal(RankIn(LexicalRanking(NonZero), id))
       ELSE 0)

\* C21: for well-formed rows the identities that hold a fused score are the
\* ranked vector ids and the positions whose BM25 score is not 0, the score
\* of each is alpha/(rrf_k + rv + 1) plus (1 - alpha)/(rrf_k + rl + 1) for
\* its ranks rv and rl in the two orderings, and the returned list is in
\* non-increasing order of that score.
C21_FusedScoreFormula ==
    (Returned /\ WellFormedRows)
      => /\ FusedIds = Range(VectorRanking) \cup Range(LexicalRanking(NonZero))
         /\ \A id \in FusedIds : FusedScoreOf(id) = StatedScore(id)
         /\ \A i, j \in 1..Len(result) :
               i < j => StatedScore(result[i]) >= StatedScore(result[j])

\* C22: a corpus position that is not also a vector id holds a fused score
\* exactly when its BM25 score is not 0: negative scores are credited, only
\* scores of exactly 0 are left out.
C22_NonZeroScoresCredited ==
    Returned
      => \A p \in Positions :
            Pos(p) \notin VectorIds
              => (NonZero(Score(p)) <=> Pos(p) \in FusedIds)

\* the positions strictly between p and q that have the score of p
TiedBetween(p, q) == {m \in Positions : p < m /\ m < q /\ Score(m) = Score(p)}

\* C28: two positions p < q with the same positive BM25 score, neither of
\* them a vector id, hold the lexical credit of two ranks r (for p) and
\* r + 1 + (number of equally scored positions between them) (for q), so
\* for alpha < 1 the lower position holds strictly more credit.
C28_TiesRankedByPosition ==
    Returned
      => \A p, q \in Positions :
            (/\ p < q
             /\ Score(p) = Score(q)
             /\ Positive(Score(p))
             /\ Pos(p) \notin VectorIds
             /\ Pos(q) \notin VectorIds
             /\ alpha < AlphaDen)
              => /\ FusedScoreOf(Pos(p)) > FusedScoreOf(Pos(q))
                 /\ \E r \in Positions :
                       /\ r + 1 + Cardinality(TiedBetween(p, q)) \in Positions
                       /\ FusedScoreOf(Pos(p)) = (AlphaDen - alpha) * Reciprocal(r)
                       /\ FusedScoreOf(Pos(q)) =
                            (AlphaDen - alpha)
                              * Reciprocal(r + 1 + Cardinality(TiedBetween(p, q)))

C28_Witness ==
    /\ Returned
    /\ Len(vector_results) = 0
    /\ Len(bm25_scores) = MaxDocs
    /\ \A p \in Positions : Score(p) = MaxScore
    /\ alpha = 0
    /\ k = MaxK
    /\ result = [i \in 1..Min(MaxK, MaxDocs) |-> Pos(i - 1)]

\* the reorderings of a list
Reorderings(n) == {f \in [1..n -> 1..n] : \A i, j \in 1..n : i # j => f[i] # f[j]}
Permuted(seq, f) == [i \in 1..Len(seq) |-> seq[f[i]]]

\* C24: for vector results with pairwise distinct distances, fuse_results
\* returns the same ranking for every permutation of the vector result
\* list.
C24_VectorOrderIrrelevant ==
    (Returned /\ Len(vector_results) >= 2 /\ DistinctDistances)
      => \A f \in Reorderings(Len(vector_results)) :
            fuse_results(Permuted(vector_results, f), bm25_scores, k, alpha)
              = result

C24_Witness ==
    /\ Returned
    /\ Len(vector_results) >= 2
    /\ DistinctDistances
    /\ alpha = AlphaDen
    /\ Len(result) >= 2
    /\ result[1] = vector_results[1].id

\* the 1-based place of a statement among those that have run, 0 if it
\* has not run
StepIndex(name) ==
    IF \E i \in 1..Len(search_steps) : search_steps[i] = name
    THEN CHOOSE i \in 1..Len(search_steps) : search_steps[i] = name
    ELSE 0

\* C23: in a call of search, fuse_results starts only after the vector adapter
\* query and the BM25 scoring have both run and returned (the adapter did not
\* raise and the scores of all documents are there).  The fused result does
\* not depend on which of the two ran first: the query step writes nothing of
\* what the scoring reads (the corpus and the index), the scoring step writes
\* nothing of what the query read or returned (the store, the rows), and the
\* result is fuse_results of the two returned values, k and alpha.
C23_FuseAfterBoth ==
    /\ []((op = "search" /\ StepIndex("fuse_results") > 0)
            => /\ StepIndex("vector_db.query") > 0
               /\ StepIndex("bm25.get_scores") > 0
               /\ StepIndex("vector_db.query") < StepIndex("fuse_results")
               /\ StepIndex("bm25.get_scores") < StepIndex("fuse_results")
               /\ vector_outcome \in {"list", "none"}
               /\ Len(bm25_scores) = corpus_size)
    /\ [][/\ (pc' = "fusing")
              => /\ StepIndex("vector_db.query") > 0
                 /\ StepIndex("bm25.get_scores") > 0
          /\ (pc = "ready" /\ pc' \in {"queried", "raised"})
              => /\ corpus' = corpus
                 /\ bm25' = bm25
                 /\ bm25_scores' = bm25_scores
          /\ (pc = "queried")
              => /\ st_exists' = st_exists
                 /\ st_store' = st_store
                 /\ vector_outcome' = vector_outcome
                 /\ vector_results' = vector_results
          /\ (op = "search" /\ pc' = "returned")
              => result' = fuse_results(vector_results', bm25_scores', k', alpha')]_vars

C23_Witness ==
    /\ op = "search"
    /\ Returned
    /\ search_steps = <<"vector_db.query", "bm25.get_scores", "fuse_results">>
    /\ Len(vector_results) = MaxDocs
    /\ Len(bm25_scores) = MaxDocs
    /\ Len(result) > 0

\* -------------------------------------------------------------------- C26
\* C26: the i-th sleep of a call follows the i-th invocation, which raised
\* OperationalError with i < max_retries, and lasts delay * i, so the sleeps
\* are strictly increasing; every such invocation is followed by its sleep,
\* and a call that raises has slept after none but the invocations before
\* the last.
C26_LinearBackoff ==
    /\ \A i \in 1..Len(sleeps) :
          /\ i < max_retries
          /\ i <= Invoked
          /\ invocations[i].exc = OperationalError
          /\ sleeps[i] = delay * i
    /\ \A i, j \in 1..Len(sleeps) : i < j => sleeps[i] < sleeps[j]
    /\ \A i \in 1..Invoked :
          (invocations[i].exc = OperationalError /\ i < max_retries)
            => Len(sleeps) >= i
    /\ rt_pc = "raised" => Len(sleeps) = Invoked - 1

C26_Witness ==
    /\ rt_pc = "raised"
    /\ rt_raised = OperationalError
    /\ max_retries = MaxRetries
    /\ delay = MaxDelay
    /\ Invoked = MaxRetries
    /\ sleeps = [i \in 1..(MaxRetries - 1) |-> MaxDelay * i]

\* -------------------------------------------------------------------- C25
\* the rows of the last bulk_insert_documents were rejected for a duplicate
\* id
InsertFailed ==
    /\ st_backend = "sqlite"
    /\ st_pc = "idle"
    /\ HasDuplicate(st_items)

\* C25: when bulk_insert_documents has ended, the documents table holds all
\* the new documents or the documents it held before the call; after an
\* insert that failed on a duplicate id it holds those it held before.
C25_FailedRebuildKeepsOld ==
    /\ (st_backend = "sqlite" /\ st_pc = "idle")
         => (st_store = NewIndex \/ st_store = st_old)
    /\ InsertFailed => st_store = st_old

\* -------------------------------------------------------------------- C27
Printed(message) == message \in Range(cli_output)

\* C27: a run of hybrid-search against a catalog that holds documents, with
\* either --db, builds the BM25 corpus from all of them and calls search;
\* "No documents found" is printed only when the catalog holds none.
C27_ChromaSearchesLikeSqlite ==
    (cli_pc \in {"done", "raised"})
      => /\ cli_catalog > 0
              => /\ cli_searched
                 /\ cli_corpus = cli_catalog
                 /\ ~Printed(NoDocumentsFound)
         /\ Printed(NoDocumentsFound) => cli_catalog = 0

\* ------------------------------------------------------------- C29 - C30
\* the frames that have borrowed a connection and not yet returned it
Holding == {i \in 1..Len(db_stack) : db_stack[i].stage \in {"body", "waiting"}}

\* C29: the connections checked out of the pool are those of the calls in
\* progress that are past get_connection and inside their try statement;
\* when no call is in progress (it returned, raised, or none was made) no
\* connection is checked out.
C29_ConnectionsReturned ==
    /\ checked_out = Cardinality(Holding)
    /\ db_pc # "running" => checked_out = 0

C29_Witness ==
    /\ db_pc = "returned"
    /\ db_func = "get_eainfo_by_source_file"
    /\ checked_out = 0
    /\ \E i \in 1..Len(db_trace) :
          /\ db_trace[i].depth = 2
          /\ db_trace[i].step = "execute"
          /\ db_trace[i].exc = OperationalError
    /\ \E i \in 1..Len(db_trace) :
          /\ db_trace[i].depth = 2
          /\ db_trace[i].step = "connect"
          /\ db_trace[i].exc = OperationalError
    /\ Len(db_sleeps) > 0

\* the functions whose own except clause answers a failing query with the
\* empty value and that call no other wrapped function
CatchesItself(func) ==
    /\ func \in DOMAIN Wrapped
    /\ Wrapped[func].handler = "return_default"
    /\ Wrapped[func].calls = "none"

QueryFailed(i) ==
    /\ db_trace[i].step = "execute"
    /\ db_trace[i].exc = OperationalError

ConnectFailed(i) ==
    /\ db_trace[i].step = "connect"
    /\ db_trace[i].exc = OperationalError

\* C30: in a call of search_docs, get_all_distinct_keywords or another
\* function that catches Exception itself, a query that raises
\* OperationalError is the only query the call runs and the last thing it
\* does: the call returns the empty value and the wrapper neither sleeps
\* nor invokes the function again.  Every sleep of the wrapper follows an
\* OperationalError of get_db() / get_connection().
C30_QueryErrorNotRetried ==
    CatchesItself(db_func)
      => /\ \A i \in 1..Len(db_trace) :
               QueryFailed(i)
                 => /\ i = Len(db_trace)
                    /\ \A j \in 1..(i - 1) : db_trace[j].step = "connect"
                    /\ db_pc = "returned"
                    /\ db_value = "default"
                    /\ db_raised = "none"
         /\ Len(db_sleeps)
              = Cardinality({i \in 1..Len(db_trace) :
                               ConnectFailed(i) /\ i < WrappedMaxRetries})
         /\ \A i \in 1..(Len(db_trace) - 1) :
               db_trace[i].exc # "none" => ConnectFailed(i)

C30_Witness ==
    /\ db_pc = "returned"
    /\ db_func = "search_docs"
    /\ Len(db_trace) = 3
    /\ ConnectFailed(1)
    /\ db_trace[2].step = "connect"
    /\ db_trace[2].exc = "none"
    /\ QueryFailed(3)
    /\ db_value = "default"
    /\ db_sleeps = <<Backoff(WrappedDelay, 0)>>

====
